---- MODULE Spec2Model ----
(***************************************************************************)
(* Model of the runtime_v2 actor runtime.                                  *)
(*                                                                         *)
(*   Spec      : ActorRuntime (src/src/lib.rs) with the Component Host     *)
(*               entry points of WasmActor (src/src/wasm.rs): producers    *)
(*               enqueue ActorMessages into the bounded mailbox and the    *)
(*               run loop dequeues, invokes, commits and replies.          *)
(*   SpecChain : ChainEmitter (src/src/chain_emitter.rs): the bounded      *)
(*               history, the broadcast fan-out and its subscribers.       *)
(***************************************************************************)
EXTENDS Integers, Sequences, FiniteSets, TLC

(***************************************************************************)
(* Bounds of the model.                                                    *)
(***************************************************************************)
\* Number of tasks that hold a clone of the mailbox Sender.
NumProducers == 2

\* Total number of ActorMessages created in one behaviour.
MaxMsgs == 2

\* Structured values are Null and the numbers 0..MaxVal.
MaxVal == 0

\* Capacity of the mailbox: mpsc::channel(32) in from_file, scaled down so
\* that a full mailbox is reached with MaxMsgs messages.
MailboxCap == 2

\* Number of requests the HTTP bridge receives in one behaviour.
MaxReqs == 3

\* Number of calls of the host function send in one behaviour.
MaxSends == 1

\* Number of chain events emitted in one behaviour.
MaxEvents == 3

\* ChainEmitter::new is given a max_history in 0..MaxCap.
MaxCap == 2

\* Number of receivers that subscribe to the chain in one behaviour.
NumSubs == 2

\* Capacity of the broadcast channel: broadcast::channel(1000) in
\* ChainEmitter::new, scaled down so that a receiver can fall behind by more
\* than the capacity within MaxEvents events.
BroadcastCap == 1

\* The max_history of the process-wide CHAIN_EMITTER.
GlobalMaxHistory == 1000

\* Number of tasks that call emit on the one CHAIN_EMITTER at the same time,
\* each with an event of its own.
NumEmitters == 2

\* Number of nodes (scalars, arrays, objects) of the largest structured
\* value put through the codec.
MaxNodes == 3

(***************************************************************************)
(* Structured values (serde_json::Value) and their byte encodings.         *)
(***************************************************************************)
\* serde_json::Value::Null, kept apart from every number.
Null == -1

Values == {Null} \cup (0 .. MaxVal)

\* serde_json::to_vec: the bytes of a structured value.
Encode(v) == [tag |-> "json", val |-> v]

\* Bytes that are no encoding of any structured value.
Junk == [tag |-> "junk", val |-> Null]

Bytes == {Encode(v) : v \in Values} \cup {Junk}

\* serde_json::from_slice: Ok(value) or a decode error.
Decode(b) ==
    IF b.tag = "json" THEN [ok |-> TRUE, val |-> b.val]
    ELSE [ok |-> FALSE, val |-> Null]

(***************************************************************************)
(* The codec itself: serde_json::to_vec and serde_json::from_slice over    *)
(* values of every shape, with the bytes written out character by          *)
(* character.                                                              *)
(***************************************************************************)
\* A plain character and the two that a JSON string must escape.
Chars == {"a", "\"", "\\"}

\* The code point of a character (strings and keys are ordered by it).
Code(c) == CASE c = "\"" -> 34 [] c = "\\" -> 92 [] OTHER -> 97

Strings ==
    {<<>>} \cup {<<c>> : c \in Chars} \cup {<<c, d>> : c, d \in Chars}

\* Integers of either sign, of one and of two digits.
Numbers == {-12, -1, 0, 7, 10}

\* Object keys: one plain and one that needs escaping.
Keys == {<<"a">>, <<"\"">>}

JNull == [t |-> "null"]
JBool(b) == [t |-> "bool", b |-> b]
JNum(n) == [t |-> "num", n |-> n]
JStr(s) == [t |-> "str", s |-> s]
JArr(items) == [t |-> "arr", items |-> items]
\* An object is its members in key order, as serde_json's Map (a BTreeMap)
\* iterates them.
JObj(members) == [t |-> "obj", members |-> members]

RECURSIVE Less(_, _)
\* k < l for strings, as str's Ord compares them.
Less(k, l) ==
    IF Len(l) = 0 THEN FALSE
    ELSE IF Len(k) = 0 THEN TRUE
    ELSE IF Code(Head(k)) # Code(Head(l)) THEN Code(Head(k)) < Code(Head(l))
    ELSE Less(Tail(k), Tail(l))

Atoms ==
    {JNull} \cup {JBool(b) : b \in BOOLEAN} \cup {JNum(n) : n \in Numbers}
        \cup {JStr(s) : s \in Strings} \cup {JArr(<<>>), JObj(<<>>)}

RECURSIVE OfSize(_)
RECURSIVE ItemsOfSize(_)
RECURSIVE MembersOfSize(_, _)
\* The values made of exactly n nodes; the sequences of values, and of
\* members with keys from avail in increasing order, of m nodes in all.
OfSize(n) ==
    IF n = 1 THEN Atoms
    ELSE {JArr(s) : s \in ItemsOfSize(n - 1)}
            \cup {JObj(m) : m \in MembersOfSize(n - 1, Keys)}

ItemsOfSize(m) ==
    IF m = 0 THEN {<<>>}
    ELSE UNION {{<<x>> \o r : x \in OfSize(k), r \in ItemsOfSize(m - k)} :
                   k \in 1 .. m}

MembersOfSize(m, avail) ==
    IF m = 0 THEN {<<>>}
    ELSE UNION {{<<[k |-> key, v |-> x]>> \o r :
                    x \in OfSize(sz),
                    r \in MembersOfSize(m - sz,
                                        {l \in avail : Less(key, l)})} :
                   key \in avail, sz \in 1 .. m}

\* Every serde_json::Value of at most max nodes.
JsonValues(max) == UNION {OfSize(n) : n \in 1 .. max}

Digit(d) == <<"0", "1", "2", "3", "4", "5", "6", "7", "8", "9">>[d + 1]

RECURSIVE Digits(_)
Digits(n) ==
    IF n < 10 THEN <<Digit(n)>> ELSE Digits(n \div 10) \o <<Digit(n % 10)>>

WriteNumber(n) == IF n < 0 THEN <<"-">> \o Digits(-n) ELSE Digits(n)

\* A writer that copies every character of a string as it is.
Verbatim(c) == <<c>>

\* format_escaped_str_contents: '"' and '\' are written with a backslash
\* before them.
Escape(c) == IF c \in {"\"", "\\"} THEN <<"\\", c>> ELSE <<c>>

RECURSIVE WriteChars(_)
WriteChars(s) ==
    IF Len(s) = 0 THEN <<>> ELSE Escape(Head(s)) \o WriteChars(Tail(s))

WriteString(s) == <<"\"">> \o WriteChars(s) \o <<"\"">>

RECURSIVE to_vec(_)
RECURSIVE WriteItems(_)
RECURSIVE WriteMembers(_)
\* serde_json::to_vec(value): the compact form, no whitespace.
to_vec(v) ==
    CASE v.t = "null" -> <<"n", "u", "l", "l">>
      [] v.t = "bool" -> IF v.b THEN <<"t", "r", "u", "e">>
                         ELSE <<"f", "a", "l", "s", "e">>
      [] v.t = "num" -> WriteNumber(v.n)
      [] v.t = "str" -> WriteString(v.s)
      [] v.t = "arr" -> <<"[">> \o WriteItems(v.items) \o <<"]">>
      [] OTHER -> <<"{">> \o WriteMembers(v.members) \o <<"}">>

WriteItems(s) ==
    IF Len(s) = 0 THEN <<>>
    ELSE to_vec(Head(s))
            \o (IF Len(s) = 1 THEN <<>> ELSE <<",">> \o WriteItems(Tail(s)))

WriteMembers(m) ==
    IF Len(m) = 0 THEN <<>>
    ELSE WriteString(Head(m).k) \o <<":">> \o to_vec(Head(m).v)
            \o (IF Len(m) = 1 THEN <<>> ELSE <<",">> \o WriteMembers(Tail(m)))

Parsed(v, r) == [ok |-> TRUE, val |-> v, rest |-> r]
ParseError == [ok |-> FALSE, val |-> JNull, rest |-> <<>>]

StartsWith(s, p) == Len(s) >= Len(p) /\ SubSeq(s, 1, Len(p)) = p
Drop(s, n) == SubSeq(s, n + 1, Len(s))
DigitChars == {Digit(d) : d \in 0 .. 9}
DigitValue(c) == CHOOSE d \in 0 .. 9 : Digit(d) = c

RECURSIVE ParseDigits(_, _)
\* The digits after the first one.
ParseDigits(s, n) ==
    IF Len(s) > 0 /\ Head(s) \in DigitChars
    THEN ParseDigits(Tail(s), 10 * n + DigitValue(Head(s)))
    ELSE [n |-> n, rest |-> s]

\* parse_integer: a zero stands alone, any other digit starts a run.
ParseInteger(s, sign) ==
    IF Len(s) = 0 \/ Head(s) \notin DigitChars THEN ParseError
    ELSE IF Head(s) = "0"
         THEN IF Len(s) > 1 /\ s[2] \in DigitChars THEN ParseError
              ELSE Parsed(JNum(0), Tail(s))
         ELSE LET d == ParseDigits(Tail(s), DigitValue(Head(s)))
              IN  Parsed(JNum(sign * d.n), d.rest)

RECURSIVE ParseChars(_, _)
\* parse_str after the opening quote: up to the closing quote, a backslash
\* taking the character after it.
ParseChars(s, acc) ==
    IF Len(s) = 0 THEN ParseError
    ELSE IF Head(s) = "\"" THEN Parsed(JStr(acc), Tail(s))
    ELSE IF Head(s) = "\\"
         THEN IF Len(s) > 1 /\ s[2] \in {"\"", "\\"}
              THEN ParseChars(Drop(s, 2), Append(acc, s[2]))
              ELSE ParseError
         ELSE ParseChars(Tail(s), Append(acc, Head(s)))

RECURSIVE Insert(_, _, _)
\* Map::insert: the member takes its place in key order, replacing a
\* member of the same key.
Insert(m, key, x) ==
    IF Len(m) = 0 THEN <<[k |-> key, v |-> x]>>
    ELSE IF Head(m).k = key THEN <<[k |-> key, v |-> x]>> \o Tail(m)
    ELSE IF Less(key, Head(m).k) THEN <<[k |-> key, v |-> x]>> \o m
    ELSE <<Head(m)>> \o Insert(Tail(m), key, x)

RECURSIVE ParseValue(_)
RECURSIVE ParseItems(_, _)
RECURSIVE ParseMembers(_, _)
\* Deserializer::deserialize_any for Value.
ParseValue(s) ==
    IF Len(s) = 0 THEN ParseError
    ELSE IF Head(s) = "n"
         THEN IF StartsWith(s, <<"n", "u", "l", "l">>)
              THEN Parsed(JNull, Drop(s, 4)) ELSE ParseError
    ELSE IF Head(s) = "t"
         THEN IF StartsWith(s, <<"t", "r", "u", "e">>)
              THEN Parsed(JBool(TRUE), Drop(s, 4)) ELSE ParseError
    ELSE IF Head(s) = "f"
         THEN IF StartsWith(s, <<"f", "a", "l", "s", "e">>)
              THEN Parsed(JBool(FALSE), Drop(s, 5)) ELSE ParseError
    ELSE IF Head(s) = "-" THEN ParseInteger(Tail(s), -1)
    ELSE IF Head(s) \in DigitChars THEN ParseInteger(s, 1)
    ELSE IF Head(s) = "\"" THEN ParseChars(Tail(s), <<>>)
    ELSE IF Head(s) = "["
         THEN IF Len(s) > 1 /\ s[2] = "]"
              THEN Parsed(JArr(<<>>), Drop(s, 2))
              ELSE ParseItems(Tail(s), <<>>)
    ELSE IF Head(s) = "{"
         THEN IF Len(s) > 1 /\ s[2] = "}"
              THEN Parsed(JObj(<<>>), Drop(s, 2))
              ELSE ParseMembers(Tail(s), <<>>)
    ELSE ParseError

ParseItems(s, acc) ==
    LET r == ParseValue(s)
    IN  IF ~r.ok \/ Len(r.rest) = 0 THEN ParseError
        ELSE IF Head(r.rest) = ","
             THEN ParseItems(Tail(r.rest), Append(acc, r.val))
        ELSE IF Head(r.rest) = "]"
             THEN Parsed(JArr(Append(acc, r.val)), Tail(r.rest))
        ELSE ParseError

ParseMembers(s, acc) ==
    IF Len(s) = 0 \/ Head(s) # "\"" THEN ParseError
    ELSE LET key == ParseChars(Tail(s), <<>>)
         IN  IF ~key.ok \/ Len(key.rest) = 0 \/ Head(key.rest) # ":"
             THEN ParseError
             ELSE LET r == ParseValue(Tail(key.rest))
                      m == Insert(acc, key.val.s, r.val)
                  IN  IF ~r.ok \/ Len(r.rest) = 0 THEN ParseError
                      ELSE IF Head(r.rest) = ","
                           THEN ParseMembers(Tail(r.rest), m)
                      ELSE IF Head(r.rest) = "}"
                           THEN Parsed(JObj(m), Tail(r.rest))
                      ELSE ParseError

\* serde_json::from_slice(bytes): one value and then the end of the input.
from_slice(b) ==
    LET r == ParseValue(b)
    IN  IF r.ok /\ Len(r.rest) = 0 THEN [ok |-> TRUE, val |-> r.val]
        ELSE [ok |-> FALSE, val |-> JNull]

(***************************************************************************)
(* State.                                                                  *)
(***************************************************************************)
VARIABLES
    \* ---- ActorRuntime / WasmActor
    state,          \* ActorRuntime.state
    mailbox,        \* the mpsc queue between tx and ActorRuntime.mailbox
    supports_http,  \* WasmActor.supports_http
    pc,             \* position of ActorRuntime::run
    cur,            \* the message run has dequeued (msg)
    res,            \* the Ok value of the invocation in progress
    instances,      \* sandboxes instantiated so far (linker.instantiate)
    sandbox,        \* what the most recent call found in its sandbox's memory
    closed,         \* the Receiver has been dropped with the runtime
    senders,        \* number of live Sender handles
    pending,        \* the messages offered by send().await calls in progress
    nextId,         \* identity of the next message created
    reply,          \* message id -> what its oneshot receiver observes
    \* ---- history of the run, kept for the properties
    enqLog,         \* ids in the order they were enqueued
    handled,        \* ids in the order the component was invoked on them
    last,           \* what the most recent invocation was given and returned
    lastGood,       \* the new state returned by the most recent successful
                    \* invocation, or by init if there was none
    inflight,       \* ids dequeued whose iteration has not finished
    \* ---- ChainEmitter
    max_history,    \* ChainEmitter.max_history
    history,        \* ChainEmitter.history (the VecDeque behind the Mutex)
    emitting,       \* the event of the emit call that holds the history
                    \* lock and has not broadcast yet (0: lock free)
    chan,           \* every value the broadcast Sender has accepted, in order
    subs,           \* the receivers handed out by subscribe
    snap,           \* what the most recent get_history returned
    \* ---- history of the chain, kept for the properties
    emitted,        \* every event passed to emit, in emission order
    \* ---- HTTP bridge
    http,           \* request id -> the request and the status answered
    \* ---- host function send
    linker,         \* which registration of "send" the component is linked to
    sendLog,        \* every call of send: the message handled, address, bytes
    tasks,          \* call number -> the delivery task spawned by that call
    posts,          \* the call numbers of the POST attempts, in order
    recorded,       \* the call numbers of the events stored, in order
    \* ---- startup and shutdown
    boot,           \* how far from_file and main have come
    given,          \* the manifest and the component the process was given
    registered,     \* the host namespaces populated in the linker
    bridge,         \* the HTTP server task: "none", "running" or "aborted"
    \* ---- one value on its way through the codec
    codec,          \* the value held, its bytes, and what they decode to
    \* ---- tasks that call CHAIN_EMITTER.emit concurrently
    callers         \* where each of them is in its call of emit

rtVars == <<state, mailbox, supports_http, pc, cur, res, instances, sandbox,
           closed,
            senders, pending, nextId, reply, enqLog, handled, last, lastGood,
            inflight>>

chVars == <<max_history, history, emitting, chan, subs, snap, emitted>>

htVars == <<http>>

sdVars == <<linker, sendLog, tasks, posts, recorded>>

stVars == <<boot, given, registered, bridge>>

cdVars == <<codec>>

emVars == <<callers>>

vars == <<rtVars, chVars, htVars, sdVars, stVars, cdVars, emVars>>

\* Identities of messages and of bridge requests.
Ids == 1 .. (IF MaxMsgs > MaxReqs THEN MaxMsgs ELSE MaxReqs)

NoMsg == [id |-> 0, kind |-> "none", content |-> Null, slot |-> FALSE]

NoRes == [ok |-> FALSE, err |-> "none", output |-> Null, result |-> Null,
          new_state |-> Null, inst |-> 0]

\* The record of one invocation: the message, the state passed in, the state
\* the most recent successful invocation (or init) had returned, and the
\* result.
Entry(m, st, good, r) ==
    [id |-> m.id, kind |-> m.kind, slot |-> m.slot, content |-> m.content,
     stateIn |-> st, expected |-> good, ok |-> r.ok, err |-> r.err,
     output |-> r.output, result |-> r.result, new_state |-> r.new_state,
     inst |-> r.inst]

NoEntry == Entry(NoMsg, Null, Null, NoRes)

\* ActorMessage::Regular { content, response } and ActorMessage::Http { .. ,
\* response }: the request of an Http message is abstracted to one value, and
\* its reply slot is not optional.
Messages(id) ==
    {[id |-> id, kind |-> "Regular", content |-> c, slot |-> s] :
        c \in 0 .. MaxVal, s \in BOOLEAN}
    \cup {[id |-> id, kind |-> "Http", content |-> c, slot |-> TRUE] :
        c \in 0 .. MaxVal}

\* What a oneshot receiver can observe.
SlotNone == [tag |-> "none", val |-> Null]
SlotPending == [tag |-> "pending", val |-> Null]
SlotClosed == [tag |-> "closed", val |-> Null]
SlotOk(v) == [tag |-> "ok", val |-> v]
\* The caller dropped the receiving end of the slot.
SlotGone == [tag |-> "gone", val |-> Null]

\* oneshot::Sender::send(v): the value is stored for the receiver, or, the
\* receiver being gone, handed back as Err(v).
Deliver(slot, v) == IF slot.tag = "gone" THEN slot ELSE SlotOk(v)

\* A host that keeps one sandbox and runs every call after the first in it.
Reused(n) == IF n = 0 THEN "fresh" ELSE "used"

\* Store::new(&self.engine, ()) and self.linker.instantiate(&mut store, ..)
\* at the head of init, handle_message and handle_http: the call runs in a
\* sandbox of its own, whatever number n of sandboxes came before.
Instantiated(n) == "fresh"

(***************************************************************************)
(* Component Host: WasmActor::handle_message and WasmActor::handle_http.   *)
(* What the sandboxed component does in one invocation is an input:        *)
(*   inst  - linker.instantiate succeeds                                   *)
(*   call  - "ok", or the error of call_instance_func / call_http_func     *)
(*   bytes - the bytes the export returns                                  *)
(***************************************************************************)
CallErrors == {"ExportNotFound", "SignatureMismatch", "Trap"}

\* A response.status that as_u64() turns down: a string, a float, a
\* negative number.
NotU64 == -3

\* The response envelope of handle-http: "state" and response.status, either
\* of which may be missing (Null: indexing a Value by a key it does not have
\* yields Value::Null); the status may also be present and no u64.
Envelopes == [state : Values, status : {Null, NotU64, 200}]

HandleBytes == Bytes

HttpBytes == {Encode(e) : e \in Envelopes} \cup {Junk}

Behaviours(bytes) ==
    {[inst |-> FALSE, call |-> "ok", bytes |-> Junk]}
    \cup {[inst |-> TRUE, call |-> e, bytes |-> Junk] : e \in CallErrors}
    \cup {[inst |-> TRUE, call |-> "ok", bytes |-> b] : b \in bytes}

Failed(kind, inst) ==
    [ok |-> FALSE, err |-> kind, output |-> Null, result |-> Null,
     new_state |-> Null, inst |-> inst]

\* WasmActor::handle_message(msg, state) -> Result<(Value, Value)>
handle_message(msg, st, oc) ==
    IF ~oc.inst THEN Failed("Instantiate", 0)
    ELSE IF oc.call # "ok" THEN Failed(oc.call, 1)
    ELSE LET new_state == Decode(oc.bytes)
         IN  IF ~new_state.ok THEN Failed("DecodeError", 1)
             ELSE [ok |-> TRUE, err |-> "none", output |-> msg,
                   result |-> new_state.val, new_state |-> new_state.val,
                   inst |-> 1]

\* A handle_http without its capability guard.
HttpAllowedAlways == TRUE

\* The guard at the head of handle_http: if !self.supports_http { bail!(..) }
HttpAllowed == supports_http

\* http_response["status"].as_u64().unwrap_or(500)
\* A status taken from the envelope as it is.
StatusAsGiven(env) == env.status

\* http_response["status"].as_u64().unwrap_or(500) as u16
StatusOf(env) == IF env.status \in Nat THEN env.status ELSE 500

\* WasmActor::handle_http(method, uri, headers, body, state)
\*   -> Result<(u16, headers, body, Value)>
handle_http(req, st, oc) ==
    IF ~HttpAllowed THEN Failed("UnsupportedCapability", 0)
    ELSE IF ~oc.inst THEN Failed("Instantiate", 0)
    ELSE IF oc.call # "ok" THEN Failed(oc.call, 1)
    ELSE LET response == Decode(oc.bytes)
         IN  IF ~response.ok THEN Failed("DecodeError", 1)
             ELSE [ok |-> TRUE, err |-> "none",
                   output |-> StatusOf(response.val),
                   result |-> StatusOf(response.val),
                   new_state |-> response.val.state, inst |-> 1]

(***************************************************************************)
(* Init: the state ActorRuntime::from_file returns: init() has produced    *)
(* the first ActorState in a sandbox of its own, the mailbox is empty and  *)
(* every producer holds a clone of tx.                                     *)
(***************************************************************************)
InitRt ==
    /\ state \in Values
    /\ lastGood = state
    /\ supports_http \in BOOLEAN
    /\ mailbox = <<>>
    /\ pc = "recv"
    /\ cur = NoMsg
    /\ res = NoRes
    /\ instances = 1
    /\ sandbox = Instantiated(0)
    /\ closed = FALSE
    /\ senders = NumProducers
    /\ pending = {}
    /\ nextId = 1
    /\ reply = [i \in Ids |-> SlotNone]
    /\ enqLog = <<>>
    /\ handled = <<>>
    /\ last = NoEntry
    /\ inflight = {}

(***************************************************************************)
(* Producers: the tasks that own a clone of the Sender<ActorMessage>.      *)
(* They are anonymous: `senders` counts the live Sender handles and        *)
(* `pending` holds the messages of the send().await calls in progress.     *)
(***************************************************************************)
\* A producer builds a message and calls tx.send(msg).await.
ProducerSend ==
    /\ Cardinality(pending) < senders
    /\ nextId <= MaxMsgs
    /\ \E m \in Messages(nextId) :
        /\ pending' = pending \cup {m}
        /\ reply' = [reply EXCEPT ![nextId] =
                        IF m.slot THEN SlotPending ELSE SlotNone]
    /\ nextId' = nextId + 1
    /\ UNCHANGED <<state, mailbox, supports_http, pc, cur, res, instances, sandbox,
                   closed, senders, enqLog, handled, last,
                   lastGood, inflight>>

\* A queue that takes every message offered.
HasRoomAlways == TRUE

\* The bounded queue of mpsc::channel(MailboxCap) has a free slot.
HasRoom == Len(mailbox) < MailboxCap

\* send().await completes once the bounded queue has room; until then the
\* producer stays suspended with its message.
ProducerEnqueue ==
    /\ ~closed
    /\ HasRoom
    /\ \E m \in pending :
        /\ mailbox' = Append(mailbox, m)
        /\ enqLog' = Append(enqLog, m.id)
        /\ pending' = pending \ {m}
    /\ UNCHANGED <<state, supports_http, pc, cur, res, instances, sandbox, closed,
                   senders, nextId, reply, handled, last, lastGood,
                   inflight>>

\* send().await fails once the Receiver is gone: the message comes back to
\* the producer and is dropped with its reply slot.
ProducerSendFails ==
    /\ closed
    /\ \E m \in pending :
        /\ pending' = pending \ {m}
        /\ reply' = [reply EXCEPT ![m.id] = IF m.slot THEN SlotClosed ELSE @]
    /\ UNCHANGED <<state, mailbox, supports_http, pc, cur, res, instances, sandbox,
                   closed, senders, nextId, enqLog, handled, last,
                   lastGood, inflight>>

\* A producer that is not sending drops its Sender.
ProducerDrop ==
    /\ Cardinality(pending) < senders
    /\ senders' = senders - 1
    /\ UNCHANGED <<state, mailbox, supports_http, pc, cur, res, instances, sandbox,
                   closed, pending, nextId, reply, enqLog, handled, last,
                   lastGood, inflight>>

(***************************************************************************)
(* ActorRuntime::run: while let Some(msg) = self.mailbox.recv().await      *)
(***************************************************************************)
\* A loop that would take the next message while the previous iteration is
\* still between its invocation and its commit.
RecvReadyEarly == pc \in {"recv", "commit"}

\* run is at the head of its loop, awaiting mailbox.recv().
RecvReady == pc = "recv"

\* A queue that hands out its newest element first.
RecvSplitLifo(q) ==
    [msg |-> q[Len(q)], rest |-> SubSeq(q, 1, Len(q) - 1)]

\* mpsc::Receiver::recv on a non-empty queue: the oldest message, and what
\* stays queued.
RecvSplit(q) == [msg |-> Head(q), rest |-> Tail(q)]

\* recv() yields the oldest queued message.
Recv ==
    /\ RecvReady
    /\ mailbox # <<>>
    /\ cur' = RecvSplit(mailbox).msg
    /\ mailbox' = RecvSplit(mailbox).rest
    /\ inflight' = inflight \cup {RecvSplit(mailbox).msg.id}
    /\ pc' = "invoke"
    /\ UNCHANGED <<state, supports_http, res, instances, sandbox, closed,
                   senders, pending, nextId, reply, enqLog, handled, last,
                   lastGood>>

\* A recv that gives up as soon as the queue is empty, senders or not.
RecvNoneEager ==
    /\ RecvReady
    /\ mailbox = <<>>
    /\ pc' = "returned_ok"
    /\ UNCHANGED <<state, mailbox, supports_http, cur, res, instances, sandbox,
                   closed, senders, pending, nextId, reply, enqLog, handled, last,
                   lastGood, inflight>>

\* recv() yields None once the queue is empty and every Sender is dropped:
\* the loop ends and run returns Ok(()).
RecvNone ==
    /\ RecvReady
    /\ mailbox = <<>>
    /\ senders = 0
    /\ pc' = "returned_ok"
    /\ UNCHANGED <<state, mailbox, supports_http, cur, res, instances, sandbox,
                   closed, senders, pending, nextId, reply, enqLog, handled, last,
                   lastGood, inflight>>

\* The invocation returned Ok: run holds (output, new_state) and goes on to
\* the assignment of self.state.
Proceed(r) ==
    /\ pc' = "commit"
    /\ res' = r
    /\ UNCHANGED <<state, reply, inflight>>

\* An error path that has already overwritten self.state with the (absent)
\* new state before returning.
RunFailPartial(r) ==
    /\ pc' = "returned_err"
    /\ res' = NoRes
    /\ reply' = [reply EXCEPT ![cur.id] = IF cur.slot THEN SlotClosed ELSE @]
    /\ inflight' = inflight \ {cur.id}
    /\ state' = r.new_state

\* The invocation returned Err: `?` returns it from run. msg, and with it
\* the Sender of its reply slot, is dropped; self.state is not assigned.
RunFail(r) ==
    /\ pc' = "returned_err"
    /\ res' = NoRes
    /\ reply' = [reply EXCEPT ![cur.id] = IF cur.slot THEN SlotClosed ELSE @]
    /\ inflight' = inflight \ {cur.id}
    /\ state' = state

\* self.actor.handle_message(&content, &self.state)? and
\* self.actor.handle_http(method, uri, headers, body, &self.state)?
Invocation(oc) ==
    IF cur.kind = "Regular"
    THEN handle_message(cur.content, state, oc)
    ELSE handle_http(cur.content, state, oc)

\* What the component may do in the call for the message in hand.
CurBehaviours ==
    Behaviours(IF cur.kind = "Regular" THEN HandleBytes ELSE HttpBytes)

\* The call returned r to run.
Returned(r) ==
    /\ handled' = Append(handled, cur.id)
    /\ last' = Entry(cur, state, lastGood, r)
    /\ lastGood' = IF r.ok THEN r.new_state ELSE lastGood
    /\ instances' = instances + r.inst
    /\ sandbox' = IF r.inst = 1 THEN Instantiated(instances) ELSE sandbox
    /\ IF r.ok THEN Proceed(r) ELSE RunFail(r)

Invoke ==
    /\ pc = "invoke"
    /\ \E oc \in CurBehaviours : Returned(Invocation(oc))
    /\ UNCHANGED <<mailbox, supports_http, cur, closed, senders, pending,
                   nextId, enqLog>>

\* An iteration that goes on to the reply without assigning self.state.
CommitSkipped ==
    /\ pc = "commit"
    /\ pc' = "reply"
    /\ UNCHANGED <<state, mailbox, supports_http, cur, res, instances, sandbox,
                   closed, senders, pending, nextId, reply, enqLog, handled, last,
                   lastGood, inflight>>

\* An iteration that resolves the reply slot first and assigns self.state
\* in a step after it.
ReplyThenCommit ==
    /\ pc = "commit"
    /\ IF cur.slot /\ reply[cur.id].tag # "ok"
       THEN /\ reply' = [reply EXCEPT ![cur.id] = SlotOk(res.output)]
            /\ UNCHANGED <<state, pc>>
       ELSE /\ state' = res.new_state
            /\ pc' = "reply"
            /\ reply' = reply
    /\ UNCHANGED <<mailbox, supports_http, cur, res, instances, sandbox,
                   closed, senders, pending, nextId, enqLog, handled, last,
                   lastGood, inflight>>

\* self.state = new_state;
Commit ==
    /\ pc = "commit"
    /\ state' = res.new_state
    /\ pc' = "reply"
    /\ UNCHANGED <<mailbox, supports_http, cur, res, instances, sandbox,
                   closed, senders, pending, nextId, reply, enqLog, handled, last,
                   lastGood, inflight>>

\* An iteration that ends without sending on the reply slot it still holds.
ReplyLost ==
    /\ pc = "reply"
    /\ inflight' = inflight \ {cur.id}
    /\ cur' = NoMsg
    /\ res' = NoRes
    /\ pc' = "recv"
    /\ UNCHANGED <<state, mailbox, supports_http, instances, sandbox, closed,
                   senders, pending, nextId, reply, enqLog, handled, last,
                   lastGood>>

\* A loop that takes a reply nobody waits for as an error of the run.
ReplyStrict ==
    /\ pc = "reply"
    /\ reply' = [reply EXCEPT ![cur.id] =
                    IF cur.slot THEN Deliver(@, res.output) ELSE @]
    /\ inflight' = inflight \ {cur.id}
    /\ cur' = NoMsg
    /\ res' = NoRes
    /\ pc' = IF cur.slot /\ reply[cur.id].tag = "gone"
             THEN "returned_err" ELSE "recv"
    /\ UNCHANGED <<state, mailbox, supports_http, instances, sandbox, closed,
                   senders, pending, nextId, enqLog, handled, last,
                   lastGood>>

\* The caller of message i gives up waiting: it drops the oneshot Receiver
\* while the slot is unresolved.
CallerDrops(i) ==
    /\ reply[i].tag = "pending"
    /\ reply' = [reply EXCEPT ![i] = SlotGone]
    /\ UNCHANGED <<state, mailbox, supports_http, pc, cur, res, instances,
                   sandbox, closed, senders, pending, nextId, enqLog, handled,
                   last, lastGood, inflight>>

\* if let Some(tx) = response { let _ = tx.send(output); }  (Regular)
\* let _ = response.send((status, resp_headers, resp_body)); (Http)
Reply ==
    /\ pc = "reply"
    /\ reply' = [reply EXCEPT ![cur.id] =
                    IF cur.slot THEN Deliver(@, res.output) ELSE @]
    /\ inflight' = inflight \ {cur.id}
    /\ cur' = NoMsg
    /\ res' = NoRes
    /\ pc' = "recv"
    /\ UNCHANGED <<state, mailbox, supports_http, instances, sandbox, closed,
                   senders, pending, nextId, enqLog, handled, last,
                   lastGood>>

RECURSIVE CloseSlots(_, _)
CloseSlots(q, r) ==
    IF q = <<>> THEN r
    ELSE CloseSlots(Tail(q),
                    [r EXCEPT ![Head(q).id] =
                        IF Head(q).slot THEN SlotClosed ELSE @])

\* main: the task that awaited runtime.run() ends and drops the runtime,
\* and with it the Receiver and every message still queued.
DropRuntime ==
    /\ pc \in {"returned_ok", "returned_err"}
    /\ ~closed
    /\ closed' = TRUE
    /\ mailbox' = <<>>
    /\ reply' = CloseSlots(mailbox, reply)
    /\ UNCHANGED <<state, supports_http, pc, cur, res, instances, sandbox,
                   senders, pending, nextId, enqLog, handled, last,
                   lastGood, inflight>>

(***************************************************************************)
(* ChainEmitter (chain_emitter.rs). Events are numbered in the order they  *)
(* are passed to emit. The history guard is held from the first line of    *)
(* emit to its return, so emit is two steps: the update of history, and    *)
(* the broadcast after which the lock is released. subscribe takes no lock *)
(* and can fall between the two.                                           *)
(***************************************************************************)
Subs == 1 .. NumSubs

NoSub == [status |-> "none", next |-> 0, got |-> <<>>, since |-> 0,
          lost |-> {}]

NoSnap == [taken |-> FALSE, at |-> 0, val |-> <<>>]

\* ChainEmitter::new(max_history)
InitCh(n) ==
    /\ max_history = n
    /\ history = <<>>
    /\ emitting = 0
    /\ chan = <<>>
    /\ subs = [s \in Subs |-> NoSub]
    /\ snap = NoSnap
    /\ emitted = <<>>

\* Number of emit calls that have returned.
Completed == Len(emitted) - (IF emitting # 0 THEN 1 ELSE 0)

\* VecDeque::pop_front: removes the oldest element, if there is one.
PopFront(q) == IF q = <<>> THEN q ELSE Tail(q)

\* emit, lines 27-31:
\*   if history.len() >= self.max_history { history.pop_front(); }
\*   history.push_back(event.clone());
Store(h, e) ==
    IF Len(h) >= max_history THEN Append(PopFront(h), e) ELSE Append(h, e)

\* emit, up to the push_back: takes the lock and updates history.
EmitStore ==
    /\ emitting = 0
    /\ Len(emitted) < MaxEvents
    /\ LET e == Len(emitted) + 1
       IN  /\ history' = Store(history, e)
           /\ emitted' = Append(emitted, e)
           /\ emitting' = e
    /\ UNCHANGED <<max_history, chan, subs, snap>>

\* A fan-out that gives up on the event, for every receiver, when one live
\* receiver has BroadcastCap values unread.
BroadcastUnlessFull(c, e) ==
    IF \E s \in Subs : subs[s].status = "live"
                       /\ Len(c) - subs[s].next >= BroadcastCap
    THEN c
    ELSE Append(c, e)

\* broadcast::Sender::send: the value is accepted iff a receiver is alive; it
\* never waits for a receiver.
Broadcast(c, e) ==
    IF \E s \in Subs : subs[s].status = "live" THEN Append(c, e) ELSE c

\* An emit that unwraps the result of tx.send: with no receiver alive it
\* panics with the history guard held, and the mutex stays poisoned.
EmitUnwrapsSend ==
    /\ emitting # 0
    /\ chan' = Broadcast(chan, emitting)
    /\ emitting' = IF \E s \in Subs : subs[s].status = "live" THEN 0 ELSE -1
    /\ UNCHANGED <<max_history, history, subs, snap, emitted>>

\* emit, from `let _ = self.tx.send(event.clone())` to its return, where the
\* history guard is dropped.
EmitBroadcast ==
    /\ emitting # 0
    /\ chan' = Broadcast(chan, emitting)
    /\ emitting' = 0
    /\ UNCHANGED <<max_history, history, subs, snap, emitted>>

\* A subscribe that hands the receiver what history holds.
SubscribeReplay == history

\* What a receiver returned by subscribe has already been handed: nothing.
SubscribeBacklog == <<>>

\* subscribe: self.tx.subscribe(), a receiver placed at the tail of the
\* channel. Receivers are numbered in the order they are created.
Subscribe(s) ==
    /\ subs[s].status = "none"
    /\ \A t \in Subs : t < s => subs[t].status # "none"
    /\ subs' = [subs EXCEPT ![s] =
                   [status |-> "live", next |-> Len(chan),
                    got |-> SubscribeBacklog, since |-> Completed,
                    lost |-> {}]]
    /\ UNCHANGED <<max_history, history, emitting, chan, snap, emitted>>

\* broadcast::Receiver::recv with a value waiting: the next value, or
\* Lagged when more than BroadcastCap values were sent since the last one
\* received, in which case the receiver moves to the oldest value retained.
SubRecv(s) ==
    /\ subs[s].status = "live"
    /\ subs[s].next < Len(chan)
    /\ subs' = [subs EXCEPT ![s] =
                   IF Len(chan) - @.next > BroadcastCap
                   THEN [@ EXCEPT !.next = Len(chan) - BroadcastCap,
                                  !.lost = @ \cup
                                      {chan[i] : i \in (subs[s].next + 1) ..
                                                  (Len(chan) - BroadcastCap)}]
                   ELSE [@ EXCEPT !.next = @ + 1,
                                  !.got = Append(@, chan[subs[s].next + 1])]]
    /\ UNCHANGED <<max_history, history, emitting, chan, snap, emitted>>

\* The receiver is dropped, with what it held.
SubDrop(s) ==
    /\ subs[s].status = "live"
    /\ subs' = [subs EXCEPT ![s] = [NoSub EXCEPT !.status = "dropped"]]
    /\ UNCHANGED <<max_history, history, emitting, chan, snap, emitted>>

\* A copy that lists the newest event first.
NewestFirst(h) == [i \in 1 .. Len(h) |-> h[Len(h) + 1 - i]]

\* .iter().cloned().collect(): a Vec of clones in the deque's order, front
\* (oldest) to back (newest).
Cloned(h) == h

\* get_history: self.history.lock().unwrap().iter().cloned().collect()
\* The history lock is taken, so no emit is between its lock and its
\* return, and the copy is made under it.
GetHistory ==
    /\ emitting = 0
    /\ snap' = [taken |-> TRUE, at |-> Len(emitted), val |-> Cloned(history)]
    /\ UNCHANGED <<max_history, history, emitting, chan, subs, emitted>>

(***************************************************************************)
(* HTTP bridge (http.rs): HttpHandler::start routes POST on "/" to         *)
(* HttpHost::handle_request, which forwards the body to the mailbox. A     *)
(* request is its method and its body; requests are numbered as they       *)
(* arrive and every handler runs as a task of its own.                     *)
(***************************************************************************)
NoReq == [method |-> "none", body |-> Junk, status |-> 0]

Requests ==
    {[method |-> m, body |-> b, status |-> 0] :
        m \in {"POST", "GET"}, b \in {Encode(v) : v \in 0 .. MaxVal} \cup {Junk}}

InitHt == http = [i \in Ids |-> NoReq]

\* A bridge that forwards a request whatever its method.
IsPostAlways(method) == TRUE

\* app.at("/").post(..) and `match req.method() { Method::Post => .. }`
IsPost(method) == method = "POST"

\* A bridge that answers 200 whether or not the message was enqueued.
StatusAlwaysOk(sent) == 200

\* The answer after `req.state().send(msg).await`: Response::new(200), or
\* the tide::Error with status 500 of map_err.
StatusAfterSend(sent) == IF sent THEN 200 ELSE 500

\* ActorMessage { content: ActorInput::Message(payload), metadata: None }:
\* a Regular message with no response channel.
BridgeMessage(id, payload) ==
    [id |-> id, kind |-> "Regular", content |-> payload, slot |-> FALSE]

\* A request arrives. Another method than POST is answered 405; a POST whose
\* body_json() fails is answered with the status of that error, 422; a POST
\* with a structured body reaches `req.state().send(msg).await`.
BridgeRequest ==
    /\ nextId <= MaxReqs
    /\ \E r \in Requests :
        LET payload == Decode(r.body)
        IN  IF ~IsPost(r.method)
            THEN /\ http' = [http EXCEPT ![nextId] = [r EXCEPT !.status = 405]]
                 /\ UNCHANGED pending
            ELSE IF ~payload.ok
            THEN /\ http' = [http EXCEPT ![nextId] = [r EXCEPT !.status = 422]]
                 /\ UNCHANGED pending
            ELSE /\ http' = [http EXCEPT ![nextId] = r]
                 /\ pending' = pending \cup {BridgeMessage(nextId, payload.val)}
    /\ nextId' = nextId + 1
    /\ UNCHANGED <<state, mailbox, supports_http, pc, cur, res, instances, sandbox,
                   closed, senders, reply, enqLog, handled, last, lastGood,
                   inflight>>

\* send().await completes once the queue has room, and the handler answers.
BridgeEnqueue ==
    /\ ~closed
    /\ HasRoom
    /\ \E m \in pending :
        /\ mailbox' = Append(mailbox, m)
        /\ enqLog' = Append(enqLog, m.id)
        /\ pending' = pending \ {m}
        /\ http' = [http EXCEPT ![m.id].status = StatusAfterSend(TRUE)]
    /\ UNCHANGED <<state, supports_http, pc, cur, res, instances, sandbox, closed,
                   senders, nextId, reply, handled, last, lastGood,
                   inflight>>

\* send().await fails because the Receiver is gone, and the handler answers.
\* A send().await that is still suspended after the Receiver is gone.
SendStaysSuspended ==
    /\ closed
    /\ pending # {}
    /\ UNCHANGED <<rtVars, htVars>>

BridgeSendFails ==
    /\ closed
    /\ \E m \in pending :
        /\ pending' = pending \ {m}
        /\ http' = [http EXCEPT ![m.id].status = StatusAfterSend(FALSE)]
    /\ UNCHANGED <<state, mailbox, supports_http, pc, cur, res, instances, sandbox,
                   closed, senders, nextId, reply, enqLog, handled, last,
                   lastGood, inflight>>

(***************************************************************************)
(* The host function send(address, payload). Three registrations exist:    *)
(* WasmActor::from_file (wasm.rs) links a send that only prints;           *)
(* BaseActorCapability links the send of capabilities.rs, which spawns a   *)
(* task that records an actor-message event in the chain and then POSTs    *)
(* the payload; HttpCapability links a send that reaches todo!() first.    *)
(* The receiver of ChainRequest is not part of the sources: AddEvent is    *)
(* taken to store the event in the chain history and to answer.            *)
(***************************************************************************)
Linkers == {"wasm", "base", "http"}

Addresses == {"http://peer/x", "http://peer/y"}

Calls == 1 .. MaxSends

NoTask == [pc |-> "none", event |-> Null]

InitSd(l) ==
    /\ linker = l
    /\ sendLog = <<>>
    /\ tasks = [k \in Calls |-> NoTask]
    /\ posts = <<>>
    /\ recorded = <<>>

\* Event { type_: "actor-message", data: json!({address, message}) }
ActorMessageEvent(address, msg_value) ==
    [type |-> "actor-message", address |-> address, message |-> msg_value]

\* println!("Message send requested to {}", actor_id); Ok(())
SendPrint(address, msg) == [panic |-> FALSE, spawn |-> FALSE, event |-> Null]

\* fn send(store, address, msg): from_slice(&msg).expect(..) panics on bytes
\* that are not JSON; otherwise the event is built and the task is spawned.
send(address, msg) ==
    LET msg_value == Decode(msg)
    IN  IF ~msg_value.ok
        THEN [panic |-> TRUE, spawn |-> FALSE, event |-> Null]
        ELSE [panic |-> FALSE, spawn |-> TRUE,
              event |-> ActorMessageEvent(address, msg_value.val)]

\* The closure behind "send" in the linker in use.
HostSend(address, msg) ==
    CASE linker = "wasm" -> SendPrint(address, msg)
      [] linker = "base" -> send(address, msg)
      [] linker = "http" -> [panic |-> TRUE, spawn |-> FALSE, event |-> Null]

\* A panic in a host function unwinds through the call and ends the task
\* that runs the loop: msg and its reply slot are dropped, self.state keeps
\* its value.
Panicked ==
    /\ pc' = "panicked"
    /\ res' = NoRes
    /\ reply' = [reply EXCEPT ![cur.id] = IF cur.slot THEN SlotClosed ELSE @]
    /\ inflight' = inflight \ {cur.id}
    /\ handled' = Append(handled, cur.id)
    /\ last' = Entry(cur, state, lastGood, Failed("Panic", 1))
    /\ instances' = instances + 1
    /\ sandbox' = Instantiated(instances)
    /\ UNCHANGED <<state, lastGood>>

\* An invocation during which the component calls send once.
InvokeSend ==
    /\ pc = "invoke"
    /\ Len(sendLog) < MaxSends
    /\ \E address \in Addresses, msg \in Bytes :
        LET k == Len(sendLog) + 1
            h == HostSend(address, msg)
        IN  /\ sendLog' = Append(sendLog, [by |-> cur.id, address |-> address,
                                           msg |-> msg])
            /\ tasks' = IF h.spawn
                        THEN [tasks EXCEPT ![k] = [pc |-> "record",
                                                   event |-> h.event]]
                        ELSE tasks
            /\ IF h.panic
               THEN Panicked
               ELSE \E oc \in {b \in CurBehaviours : b.inst} :
                        Returned(Invocation(oc))
    /\ UNCHANGED <<mailbox, supports_http, cur, closed, senders, pending,
                   nextId, enqLog, linker, posts, recorded>>

\* A send whose caller waits for the delivery and takes over its failure.
Joined(failed) ==
    /\ pc' = IF failed THEN "panicked" ELSE pc
    /\ UNCHANGED <<state, mailbox, supports_http, cur, res, instances, sandbox,
                   closed, senders, pending, nextId, reply, enqLog, handled,
                   last, lastGood, inflight>>

\* A delivery task that holds ActorState and clears it when it ends.
SharedState(failed) ==
    /\ state' = Null
    /\ UNCHANGED <<mailbox, supports_http, pc, cur, res, instances, sandbox,
                   closed, senders, pending, nextId, reply, enqLog, handled,
                   last, lastGood, inflight>>

\* tokio::spawn(async move { .. }) with the JoinHandle dropped: whatever
\* happens in the task, a panic included, stays in the task.
Detached(failed) == UNCHANGED rtVars

\* chain_tx.send(ChainRequest { AddEvent { event }, response_tx }).await
\* succeeded and the chain stored the event.
TaskRecord(k) ==
    /\ tasks[k].pc = "record"
    /\ history' = Store(history, tasks[k].event)
    /\ tasks' = [tasks EXCEPT ![k].pc = "await"]
    /\ recorded' = Append(recorded, k)
    /\ Detached(FALSE)
    /\ UNCHANGED <<linker, sendLog, posts, max_history, emitting, chan, subs,
                   snap, emitted>>

\* rx.await returned the answer of the chain.
TaskAwait(k) ==
    /\ tasks[k].pc = "await"
    /\ tasks' = [tasks EXCEPT ![k].pc = "post"]
    /\ Detached(FALSE)
    /\ UNCHANGED <<linker, sendLog, posts, recorded, chVars>>

\* .expect("Failed to record message in chain") or
\* .expect("Failed to get response from chain") panics in the spawned task.
TaskChainFails(k) ==
    /\ tasks[k].pc \in {"record", "await"}
    /\ tasks' = [tasks EXCEPT ![k].pc = "panicked"]
    /\ Detached(TRUE)
    /\ UNCHANGED <<linker, sendLog, posts, recorded, chVars>>

\* A delivery that tries again after a failed POST.
AfterPostRetry(sent) == IF sent THEN "done" ELSE "post"

\* client.post(&address).json(&msg_value).send().await.expect(..): the task
\* ends, by returning or by the panic of expect.
AfterPost(sent) == IF sent THEN "done" ELSE "panicked"

TaskPost(k) ==
    /\ tasks[k].pc = "post"
    /\ posts' = Append(posts, k)
    /\ \E sent \in BOOLEAN :
          /\ tasks' = [tasks EXCEPT ![k].pc = AfterPost(sent)]
          /\ Detached(~sent)
    /\ UNCHANGED <<linker, sendLog, recorded, chVars>>

(***************************************************************************)
(* Startup and shutdown: ActorRuntime::from_file, main and shutdown. The   *)
(* process is given a manifest and a component: whether the manifest can   *)
(* be read, whether it lists the HTTP interface and a port, whether the    *)
(* component loads, which functions it exports and what its init does.     *)
(***************************************************************************)
\* ActorState before `let state = actor.init()?` has run.
Unset == -2

BaseRuntime == "ntwk:simple-actor/runtime"

HttpRuntime == "ntwk:simple-http-actor/http-runtime"

Required == {"init", "handle"}

Environments ==
    {e \in [manifest : BOOLEAN, http : BOOLEAN, port : BOOLEAN,
            wasm : BOOLEAN, exports : SUBSET Required,
            init : Behaviours(Bytes)] :
        e.init.inst =>
            (e.init.call = "ExportNotFound" <=> "init" \notin e.exports)}

\* An environment for the specifications that begin after startup.
NoEnv ==
    [manifest |-> TRUE, http |-> FALSE, port |-> FALSE, wasm |-> TRUE,
     exports |-> Required, init |-> [inst |-> TRUE, call |-> "ok",
                                      bytes |-> Encode(Null)]]

\* The process after from_file returned Ok and main spawned run.
\* Nothing is on its way through the codec.
Idle ==
    [stage |-> "idle", value |-> JNull, bytes |-> <<>>,
     back |-> [ok |-> FALSE, val |-> JNull]]

InitCd == codec = Idle

Emitters == 1 .. NumEmitters

\* No task is inside emit.
InitEm == callers = [t \in Emitters |-> "idle"]

Started(b) ==
    /\ boot = "running"
    /\ given = NoEnv
    /\ registered = {BaseRuntime}
    /\ bridge = b

\* The process as main enters from_file.
InitStart ==
    /\ boot = "config"
    /\ given \in Environments
    /\ registered = {}
    /\ bridge = "none"
    /\ state = Unset
    /\ lastGood = Unset
    /\ supports_http = FALSE
    /\ mailbox = <<>>
    /\ pc = "starting"
    /\ cur = NoMsg
    /\ res = NoRes
    /\ instances = 0
    /\ sandbox = "none"
    /\ InitCd
    /\ InitEm
    /\ closed = FALSE
    /\ senders = NumProducers
    /\ pending = {}
    /\ nextId = 1
    /\ reply = [i \in Ids |-> SlotNone]
    /\ enqLog = <<>>
    /\ handled = <<>>
    /\ last = NoEntry
    /\ inflight = {}
    /\ InitCh(GlobalMaxHistory)
    /\ InitHt
    /\ InitSd("wasm")

\* let config = ActorConfig::from_file(&manifest_path)?;
\* A startup that carries on after a failed load.
Unchecked(ok, next) == next

\* The `?` after ActorConfig::from_file(..) and WasmActor::from_file(..):
\* an error is returned from ActorRuntime::from_file at once, and main
\* returns it in turn.
Try(ok, next) == IF ok THEN next ELSE "failed"

BootConfig ==
    /\ boot = "config"
    /\ boot' = Try(given.manifest, "actor")
    /\ UNCHANGED <<given, registered, bridge, rtVars>>

\* WasmActor::from_file(manifest_path)?: the component is read and compiled,
\* log and send are registered under ntwk:simple-actor/runtime, and
\* supports_http is taken from the manifest's interface list.
BootActor ==
    /\ boot = "actor"
    /\ boot' = Try(given.wasm, "init")
    /\ IF given.wasm
       THEN /\ registered' = {BaseRuntime}
            /\ supports_http' = given.http
       ELSE UNCHANGED <<registered, supports_http>>
    /\ UNCHANGED <<given, bridge, state, mailbox, pc, cur, res, instances, sandbox,
                   closed, senders, pending, nextId, reply, enqLog, handled,
                   last, lastGood, inflight>>

\* WasmActor::init: a sandbox is instantiated, "init" is looked up and
\* called, and its bytes are decoded.
init(oc) ==
    IF ~oc.inst THEN [ok |-> FALSE, val |-> Null, inst |-> 0]
    ELSE IF oc.call # "ok" THEN [ok |-> FALSE, val |-> Null, inst |-> 1]
    ELSE [ok |-> Decode(oc.bytes).ok, val |-> Decode(oc.bytes).val,
          inst |-> 1]

\* A startup that goes on without a state when init failed.
AfterInitLenient(r) == "spawn"

\* let state = actor.init()?;
AfterInit(r) == IF r.ok THEN "spawn" ELSE "failed"

BootInit ==
    /\ boot = "init"
    /\ LET r == init(given.init)
       IN  /\ boot' = AfterInit(r)
           /\ instances' = instances + r.inst
           /\ sandbox' = IF r.inst = 1 THEN Instantiated(instances)
                          ELSE sandbox
           /\ state' = IF r.ok THEN r.val ELSE state
           /\ lastGood' = IF r.ok THEN r.val ELSE lastGood
    /\ UNCHANGED <<given, registered, bridge, mailbox, supports_http, pc, cur,
                   res, closed, senders, pending, nextId, reply, enqLog,
                   handled, last, inflight>>

\* The HTTP server task is spawned if the manifest has a port, from_file
\* returns the runtime, and main spawns the task that runs it.
BootSpawn ==
    /\ boot = "spawn"
    /\ boot' = "running"
    /\ bridge' = IF given.port THEN "running" ELSE "none"
    /\ pc' = "recv"
    /\ UNCHANGED <<given, registered, state, mailbox, supports_http, cur, res,
                   instances, sandbox, closed, senders, pending, nextId, reply, enqLog,
                   handled, last, lastGood, inflight>>

\* call_instance_func looks the export up at every call: a component
\* without "handle" fails every handle call with ExportNotFound, and no
\* other component does.
ExportsRespected ==
    last'.inst = 1 =>
        (last'.err = "ExportNotFound" <=> "handle" \notin given.exports)

\* A shutdown that also empties the mailbox.
ShutdownDrains ==
    /\ boot = "running"
    /\ pc \in {"recv", "returned_ok", "returned_err"}
    /\ bridge' = IF bridge = "running" THEN "aborted" ELSE bridge
    /\ mailbox' = <<>>
    /\ UNCHANGED <<boot, given, registered, state, supports_http, pc, cur, res,
                   instances, sandbox, closed, senders, pending, nextId, reply, enqLog,
                   handled, last, lastGood, inflight>>

\* ActorRuntime::shutdown(&mut self): aborts the HTTP server task if there
\* is one. run borrows the runtime mutably and suspends only in recv, so
\* shutdown runs while the loop waits in recv or after run returned.
Shutdown ==
    /\ boot = "running"
    /\ pc \in {"recv", "returned_ok", "returned_err"}
    /\ bridge' = IF bridge = "running" THEN "aborted" ELSE bridge
    /\ UNCHANGED <<boot, given, registered, rtVars>>

\* main after ctrl_c: runtime_handle.abort() ends the run task where it
\* awaits recv and drops the runtime; main returns and the process exits.
MainAbort ==
    /\ boot = "running"
    /\ pc = "recv"
    /\ boot' = "exited"
    /\ pc' = "aborted"
    /\ closed' = TRUE
    /\ mailbox' = <<>>
    /\ reply' = CloseSlots(mailbox, reply)
    /\ UNCHANGED <<given, registered, bridge, state, supports_http, cur, res,
                   instances, sandbox, senders, pending, nextId, enqLog, handled,
                   last, lastGood, inflight>>

(***************************************************************************)
(* Specifications.                                                         *)
(***************************************************************************)
\* The runtime after from_file; the process-wide CHAIN_EMITTER is idle.
Init ==
    /\ InitRt
    /\ InitCh(GlobalMaxHistory)
    /\ InitHt
    /\ InitSd("wasm")
    /\ Started("none")
    /\ InitCd
    /\ InitEm

Next ==
    \/ ProducerSend /\ UNCHANGED <<chVars, htVars, sdVars, stVars, cdVars, emVars>>
    \/ ProducerEnqueue /\ UNCHANGED <<chVars, htVars, sdVars, stVars, cdVars, emVars>>
    \/ ProducerSendFails /\ UNCHANGED <<chVars, htVars, sdVars, stVars, cdVars, emVars>>
    \/ ProducerDrop /\ UNCHANGED <<chVars, htVars, sdVars, stVars, cdVars, emVars>>
    \/ Recv /\ UNCHANGED <<chVars, htVars, sdVars, stVars, cdVars, emVars>>
    \/ RecvNone /\ UNCHANGED <<chVars, htVars, sdVars, stVars, cdVars, emVars>>
    \/ Invoke /\ UNCHANGED <<chVars, htVars, sdVars, stVars, cdVars, emVars>>
    \/ Commit /\ UNCHANGED <<chVars, htVars, sdVars, stVars, cdVars, emVars>>
    \/ Reply /\ UNCHANGED <<chVars, htVars, sdVars, stVars, cdVars, emVars>>
    \/ DropRuntime /\ UNCHANGED <<chVars, htVars, sdVars, stVars, cdVars, emVars>>

Spec == Init /\ [][Next]_vars

\* The message sent carries a reply slot.
Awaited == reply'[nextId].tag = "pending"

\* Producers whose messages carry a reply slot, callers that may stop
\* waiting for their reply, and the loop.
NextDrop ==
    \/ ProducerSend /\ Awaited
          /\ UNCHANGED <<chVars, htVars, sdVars, stVars, cdVars, emVars>>
    \/ ProducerEnqueue
          /\ UNCHANGED <<chVars, htVars, sdVars, stVars, cdVars, emVars>>
    \/ \E i \in Ids : CallerDrops(i)
          /\ UNCHANGED <<chVars, htVars, sdVars, stVars, cdVars, emVars>>
    \/ Recv /\ UNCHANGED <<chVars, htVars, sdVars, stVars, cdVars, emVars>>
    \/ Invoke /\ UNCHANGED <<chVars, htVars, sdVars, stVars, cdVars, emVars>>
    \/ Commit /\ UNCHANGED <<chVars, htVars, sdVars, stVars, cdVars, emVars>>
    \/ Reply /\ UNCHANGED <<chVars, htVars, sdVars, stVars, cdVars, emVars>>

SpecDrop == Init /\ [][NextDrop]_vars

\* A ChainEmitter of any capacity in 0..MaxCap; the runtime is idle.
InitChain ==
    /\ InitRt
    /\ state = Null
    /\ ~supports_http
    /\ \E n \in 0 .. MaxCap : InitCh(n)
    /\ InitHt
    /\ InitSd("wasm")
    /\ Started("none")
    /\ InitCd
    /\ InitEm

NextChain ==
    \/ EmitStore /\ UNCHANGED <<rtVars, htVars, sdVars, stVars, cdVars, emVars>>
    \/ EmitBroadcast /\ UNCHANGED <<rtVars, htVars, sdVars, stVars, cdVars, emVars>>
    \/ \E s \in Subs : Subscribe(s) /\ UNCHANGED <<rtVars, htVars, sdVars, stVars, cdVars, emVars>>
    \/ \E s \in Subs : SubRecv(s) /\ UNCHANGED <<rtVars, htVars, sdVars, stVars, cdVars, emVars>>
    \/ \E s \in Subs : SubDrop(s) /\ UNCHANGED <<rtVars, htVars, sdVars, stVars, cdVars, emVars>>
    \/ GetHistory /\ UNCHANGED <<rtVars, htVars, sdVars, stVars, cdVars, emVars>>

SpecChain == InitChain /\ [][NextChain]_vars

\* An emit whose guard is dropped right after push_back: history is
\* unlocked while the event is broadcast.
ReleasedAfterPush == FALSE

\* let mut history = self.history.lock().unwrap(): the guard lives to the
\* end of emit, so the mutex is held while a task is between its push_back
\* and its return.
Locked == \E u \in Emitters : callers[u] = "holding"

\* A task calls CHAIN_EMITTER.emit(event); the event of task t is t.
EmitCall(t) ==
    /\ callers[t] = "idle"
    /\ callers' = [callers EXCEPT ![t] = "waiting"]
    /\ UNCHANGED chVars

\* The task gets the history mutex and stores its event (emit, 27-31).
EmitAcquire(t) ==
    /\ callers[t] = "waiting"
    /\ ~Locked
    /\ history' = Store(history, t)
    /\ emitted' = Append(emitted, t)
    /\ emitting' = t
    /\ callers' = [callers EXCEPT ![t] = "holding"]
    /\ UNCHANGED <<max_history, chan, subs, snap>>

\* The task broadcasts its event, prints it and returns (emit, 33-39).
EmitReturn(t) ==
    /\ callers[t] = "holding"
    /\ chan' = Broadcast(chan, t)
    /\ emitting' = 0
    /\ callers' = [callers EXCEPT ![t] = "done"]
    /\ UNCHANGED <<max_history, history, subs, snap, emitted>>

\* NumEmitters tasks emit on one ChainEmitter while receivers subscribe,
\* receive and are dropped.
NextEmit ==
    \/ \E t \in Emitters : EmitCall(t)
          /\ UNCHANGED <<rtVars, htVars, sdVars, stVars, cdVars>>
    \/ \E t \in Emitters : EmitAcquire(t)
          /\ UNCHANGED <<rtVars, htVars, sdVars, stVars, cdVars>>
    \/ \E t \in Emitters : EmitReturn(t)
          /\ UNCHANGED <<rtVars, htVars, sdVars, stVars, cdVars>>
    \/ \E s \in Subs : Subscribe(s)
          /\ UNCHANGED <<rtVars, htVars, sdVars, stVars, cdVars, emVars>>
    \/ \E s \in Subs : SubRecv(s)
          /\ UNCHANGED <<rtVars, htVars, sdVars, stVars, cdVars, emVars>>
    \/ \E s \in Subs : SubDrop(s)
          /\ UNCHANGED <<rtVars, htVars, sdVars, stVars, cdVars, emVars>>

SpecEmit == InitChain /\ [][NextEmit]_vars

\* The runtime with n messages of the bridge already enqueued, for each of
\* the three registrations of send.
InitSend ==
    /\ state = Null
    /\ lastGood = state
    /\ supports_http = FALSE
    /\ \E n \in 0 .. MailboxCap : \E f \in [1 .. n -> 0 .. MaxVal] :
          /\ mailbox = [i \in 1 .. n |-> BridgeMessage(i, f[i])]
          /\ enqLog = [i \in 1 .. n |-> i]
          /\ nextId = n + 1
    /\ pc = "recv"
    /\ cur = NoMsg
    /\ res = NoRes
    /\ instances = 1
    /\ sandbox = Instantiated(0)
    /\ closed = FALSE
    /\ senders = NumProducers
    /\ pending = {}
    /\ reply = [i \in Ids |-> SlotNone]
    /\ handled = <<>>
    /\ last = NoEntry
    /\ inflight = {}
    /\ InitCh(GlobalMaxHistory)
    /\ InitHt
    /\ \E l \in Linkers : InitSd(l)
    /\ Started("running")
    /\ InitCd
    /\ InitEm

NextSend ==
    \/ Recv /\ UNCHANGED <<chVars, htVars, sdVars, stVars, cdVars, emVars>>
    \/ Invoke /\ UNCHANGED <<chVars, htVars, sdVars, stVars, cdVars, emVars>>
    \/ InvokeSend /\ UNCHANGED <<chVars, htVars, stVars, cdVars, emVars>>
    \/ Commit /\ UNCHANGED <<chVars, htVars, sdVars, stVars, cdVars, emVars>>
    \/ Reply /\ UNCHANGED <<chVars, htVars, sdVars, stVars, cdVars, emVars>>
    \/ \E k \in Calls : TaskRecord(k) /\ UNCHANGED <<htVars, stVars, cdVars, emVars>>
    \/ \E k \in Calls : TaskAwait(k) /\ UNCHANGED <<htVars, stVars, cdVars, emVars>>
    \/ \E k \in Calls : TaskChainFails(k) /\ UNCHANGED <<htVars, stVars, cdVars, emVars>>
    \/ \E k \in Calls : TaskPost(k) /\ UNCHANGED <<htVars, stVars, cdVars, emVars>>

SpecSend == InitSend /\ [][NextSend]_vars

\* The task spawned for run() is scheduled whenever it can take a step, and
\* a call into the component returns.
RunStep == (Recv \/ Invoke \/ Commit \/ Reply) /\ UNCHANGED <<chVars, htVars, sdVars, stVars, cdVars, emVars>>

SpecLive == Init /\ [][Next]_vars /\ WF_vars(RunStep)

\* The runtime fed by the HTTP bridge alone. The bridge and main keep their
\* Senders, so recv() never yields None.
NextHttp ==
    \/ BridgeRequest /\ UNCHANGED <<chVars, sdVars, stVars, cdVars, emVars>>
    \/ BridgeEnqueue /\ UNCHANGED <<chVars, sdVars, stVars, cdVars, emVars>>
    \/ BridgeSendFails /\ UNCHANGED <<chVars, sdVars, stVars, cdVars, emVars>>
    \/ Recv /\ UNCHANGED <<chVars, htVars, sdVars, stVars, cdVars, emVars>>
    \/ Invoke /\ UNCHANGED <<chVars, htVars, sdVars, stVars, cdVars, emVars>>
    \/ Commit /\ UNCHANGED <<chVars, htVars, sdVars, stVars, cdVars, emVars>>
    \/ Reply /\ UNCHANGED <<chVars, htVars, sdVars, stVars, cdVars, emVars>>
    \/ DropRuntime /\ UNCHANGED <<chVars, htVars, sdVars, stVars, cdVars, emVars>>

InitHttp ==
    /\ InitRt
    /\ InitCh(GlobalMaxHistory)
    /\ InitHt
    /\ InitSd("wasm")
    /\ Started("running")
    /\ InitCd
    /\ InitEm

SpecHttp == InitHttp /\ [][NextHttp]_vars

\* The request that arrives is a POST with a structured body.
Forwarding == nextId \in {i \in Ids : IsPost(http'[i].method) /\ Decode(http'[i].body).ok}

\* The process of main.rs from its start: the bridge is the only producer,
\* it exists only while its task runs, and its requests are POSTs with a
\* structured body.
NextStart ==
    \/ BootConfig /\ UNCHANGED <<chVars, htVars, sdVars, cdVars, emVars>>
    \/ BootActor /\ UNCHANGED <<chVars, htVars, sdVars, cdVars, emVars>>
    \/ BootInit /\ UNCHANGED <<chVars, htVars, sdVars, cdVars, emVars>>
    \/ BootSpawn /\ UNCHANGED <<chVars, htVars, sdVars, cdVars, emVars>>
    \/ bridge = "running" /\ boot = "running" /\ BridgeRequest /\ Forwarding
          /\ UNCHANGED <<chVars, sdVars, stVars, cdVars, emVars>>
    \/ boot = "running" /\ BridgeEnqueue /\ UNCHANGED <<chVars, sdVars, stVars, cdVars, emVars>>
    \/ boot = "running" /\ BridgeSendFails
          /\ UNCHANGED <<chVars, sdVars, stVars, cdVars, emVars>>
    \/ Recv /\ UNCHANGED <<chVars, htVars, sdVars, stVars, cdVars, emVars>>
    \/ Invoke /\ ExportsRespected /\ UNCHANGED <<chVars, htVars, sdVars, stVars, cdVars, emVars>>
    \/ Commit /\ UNCHANGED <<chVars, htVars, sdVars, stVars, cdVars, emVars>>
    \/ Reply /\ UNCHANGED <<chVars, htVars, sdVars, stVars, cdVars, emVars>>
    \/ boot = "running" /\ DropRuntime
          /\ UNCHANGED <<chVars, htVars, sdVars, stVars, cdVars, emVars>>
    \/ Shutdown /\ UNCHANGED <<chVars, htVars, sdVars, cdVars, emVars>>
    \/ MainAbort /\ UNCHANGED <<chVars, htVars, sdVars, cdVars, emVars>>

SpecStart == InitStart /\ [][NextStart]_vars

\* The runtime holds the value v and has yet to pass it to the component.
Held(v) == [Idle EXCEPT !.stage = "held", !.value = v]

\* let state_bytes = serde_json::to_vec(state)?  (and the same for msg)
ToVec ==
    /\ codec.stage = "held"
    /\ codec' = [codec EXCEPT !.stage = "encoded",
                              !.bytes = to_vec(codec.value)]

\* serde_json::from_slice(&bytes), on the far side of the call.
FromSlice ==
    /\ codec.stage = "encoded"
    /\ codec' = [codec EXCEPT !.stage = "decoded",
                              !.back = from_slice(codec.bytes)]

\* One structured value of any supported shape goes through the codec.
InitCodec ==
    /\ InitRt
    /\ state = Null
    /\ ~supports_http
    /\ InitCh(GlobalMaxHistory)
    /\ InitHt
    /\ InitSd("wasm")
    /\ Started("none")
    /\ InitEm
    /\ \E v \in JsonValues(MaxNodes) : codec = Held(v)

NextCodec ==
    \/ ToVec /\ UNCHANGED <<rtVars, chVars, htVars, sdVars, stVars, emVars>>
    \/ FromSlice /\ UNCHANGED <<rtVars, chVars, htVars, sdVars, stVars, emVars>>

SpecCodec == InitCodec /\ [][NextCodec]_vars

\* The request that arrives carries the payload 0.
SameBody == Decode(http'[nextId].body).val = 0

\* The bridge as the producer of a loop that may return: its requests are
\* POSTs with one and the same structured body.
NextClose ==
    \/ BridgeRequest /\ Forwarding /\ SameBody
          /\ UNCHANGED <<chVars, sdVars, stVars, cdVars, emVars>>
    \/ BridgeEnqueue /\ UNCHANGED <<chVars, sdVars, stVars, cdVars, emVars>>
    \/ BridgeSendFails /\ UNCHANGED <<chVars, sdVars, stVars, cdVars, emVars>>
    \/ Recv /\ UNCHANGED <<chVars, htVars, sdVars, stVars, cdVars, emVars>>
    \/ Invoke /\ UNCHANGED <<chVars, htVars, sdVars, stVars, cdVars, emVars>>
    \/ Commit /\ UNCHANGED <<chVars, htVars, sdVars, stVars, cdVars, emVars>>
    \/ Reply /\ UNCHANGED <<chVars, htVars, sdVars, stVars, cdVars, emVars>>
    \/ DropRuntime
          /\ UNCHANGED <<chVars, htVars, sdVars, stVars, cdVars, emVars>>

\* The task spawned in main ends once run has returned, which drops the
\* runtime; closing the channel wakes every sender that waits for room.
\* tokio runs a task that can step.
SpecClose ==
    /\ InitHttp
    /\ [][NextClose]_vars
    /\ WF_vars(DropRuntime
                 /\ UNCHANGED <<chVars, htVars, sdVars, stVars, cdVars, emVars>>)
    /\ WF_vars(BridgeSendFails
                 /\ UNCHANGED <<chVars, sdVars, stVars, cdVars, emVars>>)

\* The consumer next to one family of other tasks: the HTTP bridge (the
\* runtime as from_file wires it), the deliveries of the Base capability's
\* send, or a ChainEmitter in use.
WithBridge == linker = "wasm" /\ max_history = GlobalMaxHistory

WithDeliveries == linker = "base"

WithEmitter == max_history # GlobalMaxHistory

\* The messages queued at the start all carry the same payload.
SamePayload == \A i \in DOMAIN mailbox : mailbox[i].content = 0

InitTasks ==
    \/ InitHttp
    \/ InitSend /\ WithDeliveries /\ SamePayload
    \/ InitChain /\ WithEmitter

NextTasks ==
    \/ WithBridge /\ BridgeRequest /\ Forwarding
          /\ UNCHANGED <<chVars, sdVars, stVars, cdVars, emVars>>
    \/ WithBridge /\ BridgeEnqueue /\ UNCHANGED <<chVars, sdVars, stVars, cdVars, emVars>>
    \/ WithBridge /\ BridgeSendFails /\ UNCHANGED <<chVars, sdVars, stVars, cdVars, emVars>>
    \/ WithBridge /\ DropRuntime /\ UNCHANGED <<chVars, htVars, sdVars, stVars, cdVars, emVars>>
    \/ ~WithEmitter /\ Recv /\ UNCHANGED <<chVars, htVars, sdVars, stVars, cdVars, emVars>>
    \/ ~WithEmitter /\ Invoke /\ UNCHANGED <<chVars, htVars, sdVars, stVars, cdVars, emVars>>
    \/ ~WithEmitter /\ Commit /\ UNCHANGED <<chVars, htVars, sdVars, stVars, cdVars, emVars>>
    \/ ~WithEmitter /\ Reply /\ UNCHANGED <<chVars, htVars, sdVars, stVars, cdVars, emVars>>
    \/ WithDeliveries /\ InvokeSend /\ UNCHANGED <<chVars, htVars, stVars, cdVars, emVars>>
    \/ \E k \in Calls : TaskRecord(k) /\ UNCHANGED <<htVars, stVars, cdVars, emVars>>
    \/ \E k \in Calls : TaskAwait(k) /\ UNCHANGED <<htVars, stVars, cdVars, emVars>>
    \/ \E k \in Calls : TaskChainFails(k) /\ UNCHANGED <<htVars, stVars, cdVars, emVars>>
    \/ \E k \in Calls : TaskPost(k) /\ UNCHANGED <<htVars, stVars, cdVars, emVars>>
    \/ WithEmitter /\ EmitStore /\ UNCHANGED <<rtVars, htVars, sdVars, stVars, cdVars, emVars>>
    \/ WithEmitter /\ EmitBroadcast /\ UNCHANGED <<rtVars, htVars, sdVars, stVars, cdVars, emVars>>
    \/ WithEmitter /\ GetHistory /\ UNCHANGED <<rtVars, htVars, sdVars, stVars, cdVars, emVars>>

SpecTasks == InitTasks /\ [][NextTasks]_vars

(***************************************************************************)
(* Properties of the mailbox loop (checked under Spec).                    *)
(***************************************************************************)
Invoked == last.id # 0

\* C1: the component is invoked on the messages in exactly the order in
\* which they were enqueued: the sequence of handled ids is a prefix of the
\* sequence of enqueued ids.
C1_FifoOrder ==
    /\ Len(handled) <= Len(enqLog)
    /\ \A i \in 1 .. Len(handled) : handled[i] = enqLog[i]

\* Two messages were enqueued against the order of their creation, and both
\* were handled.
C1_Witness == handled = <<2, 1>>

\* C2: at most one invocation is in progress at any instant, and the state
\* passed to an invocation is the new state returned by the most recent
\* successful invocation (or by init if there was none).
C2_SerialInvocations ==
    /\ Cardinality(inflight) <= 1
    /\ Invoked => last.stateIn = last.expected

\* A second invocation ran on the state the first one committed.
C2_Witness ==
    /\ Len(handled) = 2
    /\ last.id = handled[2]
    /\ last.ok
    /\ last.stateIn = 0

\* C3: a failed message does not stop the runtime: after a failed invocation
\* run is still in its loop.
C3_FailureKeepsLoopRunning ==
    (Invoked /\ ~last.ok) => pc # "returned_err"

\* C4: when an invocation fails, ActorState is what it was before the
\* invocation.
C4_FailureKeepsState ==
    (Invoked /\ ~last.ok) => state = last.stateIn

\* A handle call trapped while ActorState was 0.
C4_Witness ==
    /\ Invoked
    /\ ~last.ok
    /\ last.err = "Trap"
    /\ last.stateIn = 0

\* C5: when handling a message with a reply slot fails, the caller observes
\* the error, with its kind, on the slot.
C5_ErrorReachesCaller ==
    (Invoked /\ ~last.ok /\ last.slot) =>
        (reply[last.id].tag = "err" /\ reply[last.id].val = last.err)

\* C6: an Http message against an actor without the HTTP interface fails
\* with UnsupportedCapability, instantiates no sandbox and leaves ActorState
\* as it was.
C6_HttpUnsupported ==
    (Invoked /\ last.kind = "Http" /\ ~supports_http) =>
        /\ ~last.ok
        /\ last.err = "UnsupportedCapability"
        /\ last.inst = 0
        /\ state = last.stateIn

\* An Http message was processed by an actor without the HTTP interface.
C6_Witness ==
    /\ Invoked
    /\ last.kind = "Http"
    /\ ~supports_http
    /\ last.stateIn = 0

\* C7: the output sent on a Regular message's reply slot is the result the
\* component computed (the value its handle export returned).
C7_OutputIsComponentResult ==
    (Invoked /\ last.kind = "Regular" /\ last.ok
        /\ reply[last.id].tag = "ok") => reply[last.id].val = last.result

(***************************************************************************)
(* Properties of the ChainEmitter (checked under SpecChain).               *)
(***************************************************************************)
\* The last n elements of q (all of q when it is shorter).
LastN(q, n) ==
    IF Len(q) <= n THEN q ELSE SubSeq(q, Len(q) - n + 1, Len(q))

\* C8: with capacity N, a get_history after N+k emits (k > 0) returns
\* exactly the last N emitted events, oldest first.
C8_HistoryIsLastN ==
    (snap.taken /\ snap.at > max_history) =>
        snap.val = LastN(SubSeq(emitted, 1, snap.at), max_history)

\* C9: history never holds more than max_history events, for every
\* max_history >= 0.
C9_HistoryBounded == Len(history) <= max_history

\* C10: a receiver obtained after M emits never receives one of those M
\* events: everything it receives was emitted after the subscribe call, and
\* arrives in emission order.
C10_NoReplay ==
    \A s \in Subs :
        /\ \A i \in 1 .. Len(subs[s].got) : subs[s].got[i] > subs[s].since
        /\ \A i, j \in 1 .. Len(subs[s].got) :
               i < j => subs[s].got[i] < subs[s].got[j]

\* A receiver that subscribed after the first emit has received two later events.
C10_Witness ==
    \E s \in Subs :
        /\ subs[s].since = 1
        /\ Len(history) > 0
        /\ Len(subs[s].got) = 2

\* The events of the emit calls that returned after receiver s was created.
EmittedSince(s) == {e \in 1 .. Completed : e > subs[s].since}

\* The events sent that receiver s has not reached yet.
Unread(s) == {chan[i] : i \in (subs[s].next + 1) .. Len(chan)}

\* The position of event e in the channel.
ChanPos(e) == CHOOSE i \in 1 .. Len(chan) : chan[i] = e

Range(q) == {q[i] : i \in 1 .. Len(q)}

\* C11: fan-out is lossy and never blocks emit. Every live receiver has
\* received, or can still receive, each event emitted since it subscribed,
\* except the events that overflowed its own queue (at least BroadcastCap
\* newer events had been sent when it missed them); a receiver that did not
\* overflow misses nothing, whatever the other receivers do; an emit that
\* has updated history can always complete its broadcast; and history holds
\* the latest emitted events, whatever the receivers did.
C11_LossyFanout ==
    /\ \A s \in Subs :
          subs[s].status = "live" =>
              /\ EmittedSince(s) =
                     Range(subs[s].got) \cup subs[s].lost \cup Unread(s)
              /\ Range(subs[s].got) \cap subs[s].lost = {}
              /\ \A e \in subs[s].lost :
                     ChanPos(e) + BroadcastCap <= Len(chan)
    /\ emitting # 0 => ENABLED EmitBroadcast
    /\ history = LastN(emitted, IF max_history = 0 THEN 1 ELSE max_history)

\* One receiver overflowed and lost an event while another receiver, which
\* kept up, received every event.
C11_Witness ==
    \E s, t \in Subs :
        /\ subs[s].status = "live"
        /\ subs[t].status = "live"
        /\ subs[s].lost # {}
        /\ subs[t].lost = {}
        /\ Len(subs[t].got) >= 2
        /\ subs[t].since = subs[s].since

Resolved(i) == reply[i].tag \in {"ok", "closed"}

\* C13: a reply slot, once resolved, never changes; the step that resolves
\* it with a value is the iteration of its own message and sends that
\* invocation's output; and every enqueued message whose slot is pending
\* has it resolved with a value, unless run has returned an error.
C13_ReplyOnce ==
    /\ [][\A i \in Ids :
            /\ Resolved(i) => reply'[i] = reply[i]
            /\ (reply'[i] # reply[i] /\ reply'[i].tag = "ok") =>
                  /\ cur.id = i /\ cur.slot /\ last.id = i
                  /\ reply'[i].val = last.output
                  /\ i \in Range(handled)]_vars
    /\ \A i \in Ids :
          (i \in Range(enqLog) /\ reply[i].tag = "pending")
              ~> (reply[i].tag = "ok" \/ pc = "returned_err")

C13_Witness ==
    \E i, j \in Ids :
        /\ i # j
        /\ reply[i].tag = "ok" /\ reply[j].tag = "ok"
        /\ handled = <<i, j>>
        /\ pc = "recv"

(***************************************************************************)
(* Properties of the mailbox under the HTTP bridge (SpecHttp).             *)
(***************************************************************************)
Forwarded == {i \in Ids : IsPost(http[i].method) /\ Decode(http[i].body).ok}

PendingIds == {m.id : m \in pending}

\* C12: the mailbox never holds more than its capacity (MailboxCap stands for
\* the 32 of from_file); while the receiver lives, the message of every
\* forwarding handler is either still held by its suspended, unanswered
\* producer or has been enqueued exactly once, never dropped; and a
\* suspended producer proceeds exactly when the queue has a free slot.
C12_BoundedMailbox ==
    /\ Len(mailbox) <= MailboxCap
    /\ \A i \in Forwarded :
          /\ Cardinality({k \in 1 .. Len(enqLog) : enqLog[k] = i}) <= 1
          /\ i \in PendingIds => i \notin Range(enqLog) /\ http[i].status = 0
          /\ ~closed => i \in PendingIds \cup Range(enqLog)
    /\ (pending # {} /\ ~closed) => (ENABLED BridgeEnqueue <=> Len(mailbox) < MailboxCap)

C12_Witness ==
    /\ ~closed
    /\ Len(mailbox) = MailboxCap
    /\ pending # {}


Asked == {i \in Ids : http[i].method # "none"}

\* The messages of request i that the runtime side holds.
MessagesOf(i) ==
    {m \in pending \cup Range(mailbox) \cup {cur} : m.id = i}

\* C17: a request with another method than POST is answered 405, and no
\* message of it is ever held by a producer, queued or dequeued.
C17_NonPost ==
    \A i \in Asked :
        ~(http[i].method = "POST") =>
            /\ http[i].status = 405
            /\ MessagesOf(i) = {}
            /\ i \notin Range(enqLog)

C17_Witness ==
    \E i, j \in Asked :
        /\ http[i].method = "GET" /\ Decode(http[i].body).ok
        /\ http[i].status = 405
        /\ http[j].method = "POST" /\ j \in Range(enqLog)

\* C18: a POST with a structured body yields one message, Regular, with that
\* body and no reply slot, enqueued at most once; its answer is 200 exactly
\* when the message was enqueued and 500 only when the mailbox was closed,
\* and the step that answers 200 is the enqueue itself, whatever the run
\* loop is doing and before the message is handled.
C18_PostForwarded ==
    /\ [](\A i \in Forwarded :
            /\ http[i].status \in {0, 200, 500}
            /\ Cardinality({k \in 1 .. Len(enqLog) : enqLog[k] = i}) <= 1
            /\ http[i].status = 200 <=> i \in Range(enqLog)
            /\ http[i].status = 500 => (closed /\ i \notin Range(enqLog))
            /\ \A m \in MessagesOf(i) :
                  /\ m.kind = "Regular"
                  /\ m.content = Decode(http[i].body).val
                  /\ ~m.slot
            /\ reply[i] = SlotNone)
    /\ [][\A i \in Forwarded :
            (http[i].status = 0 /\ http'[i].status = 200) =>
                /\ i \in Range(enqLog') /\ i \notin Range(enqLog)
                /\ i \notin Range(handled')
                /\ pc' = pc]_vars

C18_Witness ==
    \E i, j \in Forwarded :
        /\ http[i].status = 200 /\ i \notin Range(handled)
        /\ http[j].status = 500

\* C19: the status answered to a request is 200, 405 or 500 (0 stands for a
\* request not answered yet).
C19_CoarseStatus ==
    \A i \in Asked : http[i].status \in {0, 200, 405, 500}

\* C20: the message of a forwarded request is an Http message with a reply
\* slot, and the request is not answered before that slot is resolved.
C20_Coupled ==
    \A i \in Forwarded :
        /\ \A m \in MessagesOf(i) : m.kind = "Http" /\ m.slot
        /\ http[i].status # 0 => Resolved(i)

(***************************************************************************)
(* Properties of the host function send (SpecSend).                        *)
(***************************************************************************)
Sent == 1 .. Len(sendLog)

RecordsOf(k) == {j \in 1 .. Len(recorded) : recorded[j] = k}

PostsOf(k) == {j \in 1 .. Len(posts) : posts[j] = k}

DeliveryOver(k) == tasks[k].pc \in {"none", "done", "panicked"}

\* C14: for every call send(address, payload) with decodable payload, the
\* chain history holds at most one event of the call, it is the
\* actor-message event with that address and the decoded payload, it is
\* there when the POST is attempted, and exactly one is there once no
\* delivery of the call is in progress any more.
C14_SendRecorded ==
    \A k \in Sent :
        Decode(sendLog[k].msg).ok =>
            /\ Cardinality(RecordsOf(k)) <= 1
            /\ \A j \in RecordsOf(k) :
                  history[j] = [type |-> "actor-message",
                                address |-> sendLog[k].address,
                                message |-> Decode(sendLog[k].msg).val]
            /\ PostsOf(k) # {} => RecordsOf(k) # {}
            /\ DeliveryOver(k) => Cardinality(RecordsOf(k)) = 1


Spawned == {k \in Sent : tasks[k].pc # "none"}

\* C15: send returns to the component with the delivery task still at its
\* first step; the loop ends only by the error of a call itself or by a
\* panic of the host function, never by what happens in a delivery task;
\* and whatever the tasks do, a call that returned Ok is committed and the
\* loop goes on to the next message.
C15_FireAndForget ==
    /\ [][\A k \in Calls :
            (tasks[k].pc = "none" /\ tasks'[k].pc # "none") =>
                /\ tasks'[k].pc = "record"
                /\ posts' = posts /\ recorded' = recorded
                /\ pc' = IF last'.ok THEN "commit" ELSE "returned_err"]_vars
    /\ [](pc = "returned_err" => (~last.ok /\ last.err # "Panic"))
    /\ [](pc = "panicked" =>
            /\ last.err = "Panic"
            /\ sendLog[Len(sendLog)].by = last.id
            /\ \/ linker = "http"
               \/ linker = "base" /\ ~Decode(sendLog[Len(sendLog)].msg).ok)
    /\ []((pc = "recv" /\ last.id # 0) => (last.ok /\ state = last.new_state))
    /\ [](pc = "commit" => (last.ok /\ res.new_state = last.new_state))
    /\ [](pc = "reply" => (last.ok /\ state = last.new_state))

C15_Witness ==
    \E k \in Spawned :
        /\ tasks[k].pc = "panicked"
        /\ sendLog[k].by = 1
        /\ handled = <<1, 2>>
        /\ last.ok /\ last.id = 2
        /\ pc = "recv"
        /\ state = last.new_state

\* C16: no call of send leads to more than one POST attempt, and a task
\* whose attempt failed has ended.
C16_NoRetry ==
    \A k \in Sent :
        /\ Cardinality(PostsOf(k)) <= 1
        /\ PostsOf(k) # {} => tasks[k].pc \in {"done", "panicked"}

C16_Witness ==
    \E k \in Sent : PostsOf(k) # {} /\ tasks[k].pc = "panicked"


\* C21: a step of the run loop in which send is not called leaves the chain
\* history as it was, the history holds events of send calls only, and when
\* the processing of a Regular message is complete ActorState is the new
\* state the component's handle returned.
C21_NoSendNoEvent ==
    /\ [][(sendLog' = sendLog /\ <<pc, cur, state, mailbox>>' # <<pc, cur, state, mailbox>>)
            => history' = history]_vars
    /\ [](Len(history) <= Cardinality(Spawned))
    /\ []((pc \in {"reply", "recv"} /\ last.id # 0 /\ last.kind = "Regular") =>
            /\ last.ok
            /\ last.new_state = last.result
            /\ state = last.new_state)

C21_Witness ==
    /\ handled = <<1, 2>>
    /\ Len(sendLog) = 1 /\ sendLog[1].by = 1
    /\ Len(history) = 1
    /\ last.id = 2 /\ last.stateIn = Null /\ last.result = 0
    /\ pc = "recv"
    /\ state = 0

(***************************************************************************)
(* Properties of startup and shutdown (SpecStart).                         *)
(***************************************************************************)
\* C22: ActorState does not exist before init and exists from then on; the
\* step that creates it is the init of startup, taken before any message
\* is handled; every later change is the assignment of the new state of
\* the message just handled successfully, and that assignment is made on
\* the way from each successful call to its reply.
C22_StateLifecycle ==
    /\ [][state' # state =>
            \/ /\ boot = "init" /\ boot' = "spawn"
               /\ state = Unset /\ handled = <<>>
               /\ state' = Decode(given.init.bytes).val
            \/ /\ pc = "commit" /\ pc' = "reply"
               /\ last.ok /\ last.id = cur.id
               /\ state' = last.new_state]_vars
    /\ [](boot \in {"config", "actor", "init", "failed"} =>
            (state = Unset /\ handled = <<>> /\ pc = "starting"))
    /\ [](boot \in {"spawn", "running", "exited"} => state \in Values)
    /\ [](pc = "reply" => state = last.new_state)

C22_Witness ==
    /\ boot = "running"
    /\ Decode(given.init.bytes).val = 0
    /\ Len(handled) = 2
    /\ last.ok /\ last.stateIn = Null /\ last.new_state = 0
    /\ state = 0
    /\ pc = "recv"

\* The host namespaces of the capabilities in use: Base always, Http when
\* the actor supports HTTP.
Activated == {BaseRuntime} \cup (IF supports_http THEN {HttpRuntime} ELSE {})

\* C24: once the component host is built, and so before any sandbox is
\* instantiated, Base is activated, Http is activated exactly when the
\* manifest lists the HTTP interface, and the linker holds the host
\* functions of every activated capability.
C24_CapabilitiesRegistered ==
    boot \in {"init", "spawn", "running", "exited"} =>
        /\ BaseRuntime \in Activated
        /\ HttpRuntime \in Activated <=> given.http
        /\ Activated \subseteq registered

(***************************************************************************)
(* Properties of the tasks around the consumer (SpecTasks).                *)
(***************************************************************************)
\* C23: ActorState changes only in the consumer's assignment between a call
\* and its reply; a step of a bridge handler, of a delivery task or of the
\* chain emitter leaves it, and the record of the state last returned, as
\* they were; messages leave the mailbox only into the one consumer (or
\* with the runtime when it is dropped), which has at most one in hand.
C23_SingleWriter ==
    /\ [][state' # state => (pc = "commit" /\ pc' = "reply")]_vars
    /\ [][(\/ http' # http \/ pending' # pending
           \/ <<posts, recorded>>' # <<posts, recorded>>
           \/ (tasks' # tasks /\ sendLog' = sendLog)
           \/ chVars' # chVars)
            => <<state, lastGood, cur>>' = <<state, lastGood, cur>>]_vars
    /\ [][Len(mailbox') < Len(mailbox) =>
            \/ /\ pc = "recv" /\ pc' = "invoke"
               /\ cur' = Head(mailbox) /\ mailbox' = Tail(mailbox)
            \/ closed' /\ mailbox' = <<>>]_vars
    /\ [](Cardinality(inflight) <= 1)
    /\ [](inflight = IF pc \in {"invoke", "commit", "reply"}
                     THEN {cur.id} ELSE {})

C23_Witness ==
    /\ WithDeliveries
    /\ \E k \in Sent : tasks[k].pc = "done" /\ sendLog[k].by = 1
    /\ Len(history) = 1
    /\ handled = <<1, 2>>
    /\ pc = "reply"
    /\ state = 0

C26_ExportsCheckedAtStartup ==
    /\ boot \in {"spawn", "running"} => Required \subseteq given.exports
    /\ (boot = "running" /\ last.id # 0) => last.err # "ExportNotFound"

\* C27: a startup error is fatal.  A runtime exists only if the manifest
\* loaded, the component loaded and init returned a state; after a failed
\* startup nothing happens any more: the bridge was never started, no
\* request was taken, no message was queued or processed, and there is no
\* ActorState.
C27_StartupErrorsFatal ==
    /\ [](boot \in {"spawn", "running", "exited"} =>
             (given.manifest /\ given.wasm /\ init(given.init).ok))
    /\ [](boot = "failed" =>
             /\ ~(given.manifest /\ given.wasm /\ init(given.init).ok)
             /\ pc = "starting"
             /\ bridge = "none"
             /\ mailbox = <<>> /\ handled = <<>> /\ pending = {}
             /\ nextId = 1 /\ last.id = 0
             /\ state = Unset)
    /\ [](bridge # "none" => boot \in {"running", "exited"})
    /\ [][boot = "failed" => vars' = vars]_vars

C27_Witness ==
    /\ boot = "failed"
    /\ given.manifest /\ given.wasm /\ given.port
    /\ given.init.inst /\ given.init.call = "ok"
    /\ ~Decode(given.init.bytes).ok
    /\ instances = 1

\* C28: shutdown cancels the HTTP bridge task and does nothing else.  The
\* step that cancels a running bridge leaves ActorState, the queued
\* messages, the consumer's position and every other part of the runtime
\* as they were; a bridge once cancelled stays cancelled and takes no
\* further request.
C28_ShutdownOnlyCancels ==
    /\ [][(bridge = "running" /\ bridge' # bridge) =>
              /\ bridge' = "aborted"
              /\ mailbox' = mailbox
              /\ state' = state
              /\ <<pc, cur, inflight, handled, reply, pending>>' =
                     <<pc, cur, inflight, handled, reply, pending>>
              /\ UNCHANGED <<rtVars, boot>>]_vars
    /\ [][bridge = "aborted" =>
              /\ bridge' = "aborted"
              /\ \A i \in DOMAIN http :
                    http[i].method = "none" => http'[i].method = "none"]_vars

C28_Witness ==
    /\ bridge = "aborted"
    /\ boot = "running"
    /\ Len(mailbox) > 0
    /\ Len(handled) > 0
    /\ state # Unset
    /\ pc = "recv"

\* C29: what get_history returned is the ring buffer as it was at one
\* instant, the instant of the call: the last events emitted up to then,
\* oldest first, none of a later emit among them; and a copy once returned
\* is not changed by the emits that follow.
C29_PointInTimeCopy ==
    /\ [](snap.taken =>
             /\ snap.val = LastN(SubSeq(emitted, 1, snap.at),
                                 IF max_history = 0 THEN 1 ELSE max_history)
             /\ \A i, j \in DOMAIN snap.val : i < j => snap.val[i] < snap.val[j]
             /\ \A i \in DOMAIN snap.val : snap.val[i] <= snap.at)
    /\ [][(snap.taken /\ (emitted' # emitted \/ history' # history
                              \/ emitting' # emitting)) => snap' = snap]_vars
    /\ [][snap' # snap =>
              (emitting = 0 /\ snap'.val = history /\ history' = history)]_vars

C29_Witness ==
    /\ snap.taken
    /\ Len(snap.val) = 2
    /\ snap.at = 2
    /\ Len(emitted) = 3
    /\ emitting = 0
    /\ history # snap.val

C31_HttpSendAsBase ==
    linker = "http" =>
        \A k \in DOMAIN sendLog :
            /\ HostSend(sendLog[k].address, sendLog[k].msg).panic
                  = send(sendLog[k].address, sendLog[k].msg).panic
            /\ HostSend(sendLog[k].address, sendLog[k].msg).spawn
                  = send(sendLog[k].address, sendLog[k].msg).spawn
            /\ Decode(sendLog[k].msg).ok =>
                  /\ tasks[k].pc # "none"
                  /\ tasks[k].event =
                        ActorMessageEvent(sendLog[k].address,
                                          Decode(sendLog[k].msg).val)
                  /\ ~(pc = "panicked" /\ last.id = sendLog[k].by)

\* C32: a send whose payload does not decode starts no delivery and
\* records no event; the message being handled fails and commits nothing,
\* and the loop goes on to the messages after it.
C32_BadPayloadConfined ==
    \A k \in DOMAIN sendLog :
        ~Decode(sendLog[k].msg).ok =>
            /\ tasks[k].pc = "none"
            /\ k \notin {recorded[i] : i \in DOMAIN recorded}
            /\ pc # "panicked"
            /\ (last.id = sendLog[k].by /\ pc \in {"reply", "recv"}) =>
                  (~last.ok /\ state = last.stateIn)

\* C33: the state is committed before the reply slot is resolved.  At the
\* step that puts an output into a caller's slot the message is the one
\* being processed, it succeeded, and the current state already is the new
\* state that message produced; the step itself leaves the state alone.
C33_CommitBeforeReply ==
    [][\A i \in Ids :
          (reply'[i].tag = "ok" /\ reply[i].tag # "ok") =>
              /\ i = cur.id
              /\ last.id = i /\ last.ok
              /\ reply'[i].val = last.output
              /\ state = last.new_state
              /\ state' = state]_vars

C33_Witness ==
    /\ reply[1].tag = "ok"
    /\ last.id = 1
    /\ last.stateIn # last.new_state
    /\ state = last.new_state
    /\ pc = "recv"

\* Position of event e in the sequence q (0 when it is not there).
Pos(q, e) == IF \E i \in DOMAIN q : q[i] = e
             THEN CHOOSE i \in DOMAIN q : q[i] = e ELSE 0

\* q lists some of the elements of p, each once, in p's order.
InOrderOf(q, p) ==
    /\ \A i \in DOMAIN q : Pos(p, q[i]) > 0
    /\ \A i, j \in DOMAIN q : i < j => Pos(p, q[i]) < Pos(p, q[j])

\* C34: emit is atomic with respect to other emits.  With several tasks
\* inside emit at once, the event of every task that got as far as
\* storing it was appended exactly once, history is the tail of that one
\* sequence of appends, and what was broadcast, and so what any
\* subscriber received, follows the order of the appends.
C34_EmitAtomic ==
    /\ \A t \in Emitters :
          Cardinality({i \in DOMAIN emitted : emitted[i] = t})
              = IF callers[t] \in {"holding", "done"} THEN 1 ELSE 0
    /\ history = LastN(emitted, IF max_history = 0 THEN 1 ELSE max_history)
    /\ Cardinality({u \in Emitters : callers[u] = "holding"}) <= 1
    /\ InOrderOf(chan, emitted)
    /\ \A s \in Subs : InOrderOf(subs[s].got, emitted)

C34_Witness ==
    /\ \A t \in Emitters : callers[t] = "done"
    /\ emitted = <<2, 1>>
    /\ max_history = 2
    /\ history = <<2, 1>>
    /\ \E s \in Subs : subs[s].got = <<2, 1>>

\* C35: a caller that dropped its end of the reply slot changes nothing
\* for the runtime.  Its message is invoked like any other; when the
\* invocation succeeds the new state is committed, the reply that cannot
\* be delivered is ignored, and the loop is back at recv for the next
\* message: the run never ends because of it.
C35_DroppedCallerIgnored ==
    /\ [][(pc = "invoke" /\ pc' # pc /\ reply[cur.id].tag = "gone") =>
              /\ handled' = Append(handled, cur.id)
              /\ last'.id = cur.id
              /\ last'.ok => pc' = "commit"]_vars
    /\ [][(pc = "commit" /\ pc' # pc /\ reply[cur.id].tag = "gone") =>
              (state' = last.new_state /\ pc' = "reply")]_vars
    /\ [][(pc = "reply" /\ pc' # pc /\ reply[cur.id].tag = "gone") =>
              /\ pc' = "recv"
              /\ state' = state /\ state = last.new_state
              /\ reply'[cur.id].tag = "gone"]_vars
    /\ [](pc = "returned_err" => ~last.ok)

C35_Witness ==
    /\ reply[1].tag = "gone"
    /\ handled = <<1, 2>>
    /\ lastGood = 0
    /\ last.id = 2 /\ last.ok
    /\ reply[2].tag = "ok"
    /\ pc = "recv"

\* C36: run returns Ok only when every Sender of the mailbox has been
\* dropped and the queue is empty, having processed every message that was
\* ever enqueued, none of which failed; while a sender is alive the only
\* way out of the loop is a failed message.
C36_RunEndsWhenSendersGone ==
    /\ [][(pc' = "returned_ok" /\ pc # "returned_ok") =>
              /\ pc = "recv"
              /\ senders = 0 /\ pending = {}
              /\ mailbox = <<>>
              /\ handled = enqLog
              /\ UNCHANGED <<state, handled, reply>>]_vars
    /\ [](pc = "returned_ok" =>
              /\ senders = 0 /\ mailbox = <<>>
              /\ handled = enqLog
              /\ (last.id # 0 => last.ok))
    /\ []((senders > 0 /\ pc \in {"returned_ok", "returned_err"}) =>
              (pc = "returned_err" /\ last.id # 0 /\ ~last.ok))

C36_Witness ==
    /\ pc = "returned_ok"
    /\ senders = 0
    /\ enqLog = <<1, 2>>
    /\ handled = <<1, 2>>
    /\ last.ok

\* C37: once run has returned, ActorState never changes again and the
\* runtime is dropped; from then on nothing is enqueued, nothing is
\* processed, every send the bridge attempts or was suspended in ends with
\* a failure that the bridge answers with 500, and no sender stays
\* suspended for ever.
C37_AfterRunReturned ==
    /\ [][(pc = "returned_ok" \/ pc = "returned_err") =>
              (state' = state /\ pc' = pc /\ handled' = handled)]_vars
    /\ [][closed =>
              /\ closed'
              /\ mailbox' = <<>> /\ enqLog' = enqLog
              /\ \A i \in Ids :
                    (i \in PendingIds /\ http'[i].status # http[i].status)
                        => http'[i].status = 500]_vars
    /\ (pc \in {"returned_ok", "returned_err"}) ~> closed
    /\ \A i \in Ids :
          (closed /\ i \in PendingIds)
              ~> (i \notin PendingIds /\ http[i].status = 500)

C37_Witness ==
    /\ closed
    /\ pc = "returned_err"
    /\ \E i, j \in Ids :
          /\ i # j
          /\ http[i].status = 500 /\ http[j].status = 500
          /\ i \notin Range(enqLog) /\ j \notin Range(enqLog)
    /\ pending = {}

\* The component returned the bytes of envelope e from handle-http.
ReturnedEnvelope(e) == [inst |-> TRUE, call |-> "ok", bytes |-> Encode(e)]

C39_EmitWithoutSubscribers ==
    /\ [](emitting \in 0 .. MaxEvents)
    /\ [](history = LastN(emitted,
                          IF max_history = 0 THEN 1 ELSE max_history))
    /\ [][emitting # 0 =>
              (emitting' \in {0, emitting} /\ history' = history)]_vars
    /\ [][(emitting # 0 /\ emitting' = 0) =>
              /\ history[Len(history)] = emitting
              /\ (\A s \in Subs : subs[s].status # "live") => chan' = chan]_vars

C39_Witness ==
    /\ subs[1].status = "dropped"
    /\ \A s \in Subs : subs[s].status # "live"
    /\ Len(chan) = 1
    /\ Len(emitted) = 3
    /\ emitting = 0
    /\ max_history = 2
    /\ history = <<2, 3>>

====
